---- MODULE Spec2Model ----
(***************************************************************************)
(* Model of the OSConstruction REST facade: the token/role gate            *)
(* (authentication.py), the pydantic schemas (models.py), the validated    *)
(* handlers (app_improved.py) and the unvalidated ones (app.py), over an   *)
(* external relational store.                                              *)
(*                                                                         *)
(* JSON values are written as strings: a JSON string is its text, a JSON   *)
(* number n is "#n", a JSON boolean is "#true"/"#false", JSON null is      *)
(* "null"; a key that is not in an object maps to "<absent>".  A python    *)
(* date object is "d:<iso>".                                               *)
(***************************************************************************)
EXTENDS Integers, Sequences, FiniteSets, TLC

VARIABLES now, adminEnv, storeUp, companies, children, nextId, issued, req,
          hist, config

vars == <<now, adminEnv, storeUp, companies, children, nextId, issued, req,
          hist, config>>

(***************************************************************************)
(* Bounds of the model                                                     *)
(***************************************************************************)
MaxTime == 129601
CoarseTick == 43200
MaxIds == 2
NSlots == 2

(***************************************************************************)
(* JSON value universe                                                     *)
(***************************************************************************)
Absent == "<absent>"
Null == "null"
Invalid == "<invalid>"
LongText == "<text of 256 characters>"

JsonNumbers == {"#1999", "#1700"}
JsonBools == {"#true", "#false"}
JsonStrings == {"", "Acme", "Bolt", "1 Main St", "info@Acme.ORG",
                "info@acme.org", "not-an-email", "555-0100", "123", "1999",
                "acme.org", "planned", "finished", "2024-01-01", "2024-06-30",
                "Ann", "Mason", "Paving", "true", LongText}

StrLen(s) ==
  CASE s = "" -> 0
    [] s \in {"123", "Ann"} -> 3
    [] s \in {"Acme", "Bolt", "1999", "true"} -> 4
    [] s = "Mason" -> 5
    [] s = "Paving" -> 6
    [] s \in {"planned"} -> 7
    [] s \in {"555-0100", "finished", "acme.org"} -> 8
    [] s = "1 Main St" -> 9
    [] s \in {"2024-01-01", "2024-06-30"} -> 10
    [] s = "not-an-email" -> 12
    [] s \in {"info@Acme.ORG", "info@acme.org"} -> 13
    [] s = LongText -> 256
    [] OTHER -> 1

\* str(v) of a JSON number
StrOfNumber(v) == IF v = "#1999" THEN "1999" ELSE "1700"

\* int(v) of a string, Invalid when python raises
IntOfString(s) == IF s = "1999" THEN "#1999" ELSE Invalid

NumberValue(v) == IF v = "#1999" THEN 1999 ELSE IF v = "#1700" THEN 1700 ELSE 0

\* pydantic's validate_email: the domain part is lower-cased
EmailOf(s) ==
  IF s \in {"info@Acme.ORG", "info@acme.org"} THEN "info@acme.org" ELSE Invalid

\* date.fromisoformat-like parsing, and date.isoformat()
DateOf(s) == IF s \in {"2024-01-01", "2024-06-30"}
             THEN (IF s = "2024-01-01" THEN "d:2024-01-01" ELSE "d:2024-06-30")
             ELSE Invalid
isoformat(d) == IF d = "d:2024-01-01" THEN "2024-01-01" ELSE "2024-06-30"
DateOrd(d) == IF d = "d:2024-01-01" THEN 1 ELSE 2

current_year == 2026

(***************************************************************************)
(* models.py: field types of the pydantic schemas                          *)
(***************************************************************************)
valid_statuses == {"planned", "in_progress", "completed", "cancelled", "on_hold"}

\* The value a field of the given type takes for a non-null raw value,
\* Invalid when the type validator raises.
Coerce(type, v) ==
  CASE type = "str" ->
         IF v \in JsonStrings THEN v
         ELSE IF v \in JsonNumbers THEN StrOfNumber(v)
         ELSE Invalid
    [] type = "email" ->
         IF v \in JsonStrings THEN EmailOf(v) ELSE Invalid
    [] type = "int" ->
         IF v \in JsonNumbers THEN v
         ELSE IF v \in JsonStrings THEN IntOfString(v)
         ELSE IF v = "#true" THEN "#1" ELSE "#0"
    [] type = "bool" ->
         IF v \in JsonBools THEN v
         ELSE IF v = "true" THEN "#true"
         ELSE Invalid
    [] type = "date" ->
         IF v \in JsonStrings THEN DateOf(v) ELSE Invalid
    [] OTHER -> Invalid

TypeErrorMsg(type) ==
  CASE type = "str" -> "str type expected"
    [] type = "email" -> "value is not a valid email address"
    [] type = "int" -> "value is not a valid integer"
    [] type = "bool" -> "value could not be parsed to a boolean"
    [] OTHER -> "invalid date format"

Fld(name, type, required, allowNone, default, minLen, maxLen) ==
  [type |-> type, name |-> name, required |-> required,
   allowNone |-> allowNone, default |-> default,
   minLen |-> minLen, maxLen |-> maxLen]

NoMax == 1000000

\* CompanyCreate with is_verified defaulting to True
CompanyCreate_VerifiedByDefault ==
  << Fld("company_name", "str", TRUE, FALSE, Absent, 1, 255),
     Fld("company_address", "str", TRUE, FALSE, Absent, 0, NoMax),
     Fld("company_email", "email", TRUE, FALSE, Absent, 0, NoMax),
     Fld("company_phone", "str", TRUE, FALSE, Absent, 5, 50),
     Fld("website", "str", FALSE, TRUE, Null, 0, NoMax),
     Fld("description", "str", FALSE, TRUE, Null, 0, NoMax),
     Fld("founded_year", "int", FALSE, TRUE, Null, 0, NoMax),
     Fld("is_verified", "bool", FALSE, FALSE, "#true", 0, NoMax) >>

CompanyCreate ==
  << Fld("company_name", "str", TRUE, FALSE, Absent, 1, 255),
     Fld("company_address", "str", TRUE, FALSE, Absent, 0, NoMax),
     Fld("company_email", "email", TRUE, FALSE, Absent, 0, NoMax),
     Fld("company_phone", "str", TRUE, FALSE, Absent, 5, 50),
     Fld("website", "str", FALSE, TRUE, Null, 0, NoMax),
     Fld("description", "str", FALSE, TRUE, Null, 0, NoMax),
     Fld("founded_year", "int", FALSE, TRUE, Null, 0, NoMax),
     Fld("is_verified", "bool", FALSE, FALSE, "#false", 0, NoMax) >>

CompanyUpdate ==
  << Fld("company_name", "str", FALSE, TRUE, Null, 1, 255),
     Fld("company_address", "str", FALSE, TRUE, Null, 0, NoMax),
     Fld("company_email", "email", FALSE, TRUE, Null, 0, NoMax),
     Fld("company_phone", "str", FALSE, TRUE, Null, 5, 50),
     Fld("website", "str", FALSE, TRUE, Null, 0, NoMax),
     Fld("description", "str", FALSE, TRUE, Null, 0, NoMax),
     Fld("founded_year", "int", FALSE, TRUE, Null, 0, NoMax),
     Fld("is_verified", "bool", FALSE, TRUE, Null, 0, NoMax) >>

ServiceCreate ==
  << Fld("service_name", "str", TRUE, FALSE, Absent, 1, 255),
     Fld("description", "str", FALSE, TRUE, Null, 0, NoMax),
     Fld("is_free", "bool", FALSE, FALSE, "#true", 0, NoMax),
     Fld("eligibility_criteria", "str", FALSE, TRUE, Null, 0, NoMax) >>

ProjectCreate ==
  << Fld("project_name", "str", TRUE, FALSE, Absent, 1, 255),
     Fld("location", "str", TRUE, FALSE, Absent, 0, NoMax),
     Fld("start_date", "date", FALSE, TRUE, Null, 0, NoMax),
     Fld("end_date", "date", FALSE, TRUE, Null, 0, NoMax),
     Fld("status", "str", FALSE, FALSE, "planned", 0, NoMax),
     Fld("description", "str", FALSE, TRUE, Null, 0, NoMax),
     Fld("beneficiary_info", "str", FALSE, TRUE, Null, 0, NoMax) >>

EmployeeCreate ==
  << Fld("full_name", "str", TRUE, FALSE, Absent, 1, 255),
     Fld("position", "str", TRUE, FALSE, Absent, 1, 100),
     Fld("email", "email", FALSE, TRUE, Null, 0, NoMax),
     Fld("phone", "str", FALSE, TRUE, Null, 0, NoMax),
     Fld("specialization", "str", FALSE, TRUE, Null, 0, NoMax),
     Fld("join_date", "date", FALSE, TRUE, Null, 0, NoMax) >>

SchemaFields(schema) == {schema[i].name : i \in 1..Len(schema)}

Fields == SchemaFields(CompanyCreate) \cup SchemaFields(ServiceCreate)
          \cup SchemaFields(ProjectCreate) \cup SchemaFields(EmployeeCreate)

\* keys a client may send beyond the schema fields
ExtraKeys == {"id", "company_id", "created_at", "updated_at", "nickname",
              "username", "password"}
Keys == Fields \cup ExtraKeys

\* A JSON object: every key of Keys maps to its value, or to Absent.
Obj(pairs) == [k \in Keys |-> IF k \in DOMAIN pairs THEN pairs[k] ELSE Absent]
EmptyObj == [k \in Keys |-> Absent]
KeysOf(data) == {k \in Keys : data[k] # Absent}
(***************************************************************************)
(* models.py: validation of a JSON object against a schema.  pydantic      *)
(* validates every field and collects one error per offending field.       *)
(***************************************************************************)
Checked(err, val) == [err |-> err, val |-> val]

\* class validators (models.py: validate_founded_year, validate_status,
\* validate_end_date); start is values['start_date'], Absent when that
\* field is not in values.
ApplyValidator(name, v, start) ==
  CASE name = "founded_year" ->
         IF NumberValue(v) < 1800 \/ NumberValue(v) > current_year
         THEN Checked("Founded year must be between 1800 and current_year", v)
         ELSE Checked("", v)
    [] name = "status" ->
         IF v \notin valid_statuses
         THEN Checked("Status must be one of valid_statuses", v)
         ELSE Checked("", v)
    [] name = "end_date" ->
         IF start \notin {Absent, Null} /\ DateOrd(v) < DateOrd(start)
         THEN Checked("End date must be after start date", v)
         ELSE Checked("", v)
    [] OTHER -> Checked("", v)

FieldResult(fs, raw, start) ==
  IF raw = Absent
  THEN IF fs.required THEN Checked("field required", Absent)
       ELSE Checked("", fs.default)
  ELSE IF raw = Null
  THEN IF fs.allowNone THEN Checked("", Null)
       ELSE Checked("none is not an allowed value", Absent)
  ELSE LET c == Coerce(fs.type, raw) IN
       IF c = Invalid THEN Checked(TypeErrorMsg(fs.type), Absent)
       ELSE IF fs.type = "str" /\ StrLen(c) < fs.minLen
       THEN Checked("ensure this value has at least min_length characters", Absent)
       ELSE IF fs.type = "str" /\ StrLen(c) > fs.maxLen
       THEN Checked("ensure this value has at most max_length characters", Absent)
       ELSE ApplyValidator(fs.name, c, start)

\* ValidateModel for models that keep the keys they do not declare
\* (Config.extra = "allow")
ValidateModel_AllowExtra(schema, data) ==
  LET n == Len(schema)
      plain == [i \in 1..n |-> FieldResult(schema[i], data[schema[i].name], Absent)]
      startVal == IF \E i \in 1..n : schema[i].name = "start_date" /\ plain[i].err = ""
                  THEN plain[CHOOSE i \in 1..n : schema[i].name = "start_date"].val
                  ELSE Absent
      res == [i \in 1..n |-> FieldResult(schema[i], data[schema[i].name], startVal)]
      all == [i \in 1..n |-> [field |-> schema[i].name, msg |-> res[i].err]]
      Bad(e) == e.msg # ""
      IdxOf(k) == CHOOSE i \in 1..n : schema[i].name = k
  IN [errors |-> SelectSeq(all, Bad),
      values |-> [k \in Keys |-> IF k \in SchemaFields(schema)
                                  THEN res[IdxOf(k)].val ELSE data[k]]]

\* Model(**data): [errors |-> the list of {field, message} pairs in field
\* order, values |-> Model(**data).dict() when errors is empty].  The models
\* set no Config.extra, so a key that the model does not declare is ignored.
ValidateModel(schema, data) ==
  LET n == Len(schema)
      plain == [i \in 1..n |-> FieldResult(schema[i], data[schema[i].name], Absent)]
      startVal == IF \E i \in 1..n : schema[i].name = "start_date" /\ plain[i].err = ""
                  THEN plain[CHOOSE i \in 1..n : schema[i].name = "start_date"].val
                  ELSE Absent
      res == [i \in 1..n |-> FieldResult(schema[i], data[schema[i].name], startVal)]
      all == [i \in 1..n |-> [field |-> schema[i].name, msg |-> res[i].err]]
      Bad(e) == e.msg # ""
      IdxOf(k) == CHOOSE i \in 1..n : schema[i].name = k
  IN [errors |-> SelectSeq(all, Bad),
      values |-> [k \in Keys |-> IF k \in SchemaFields(schema)
                                  THEN res[IdxOf(k)].val ELSE Absent]]

(***************************************************************************)
(* Error messages: a text and, for a pydantic failure, the {field,         *)
(* message} pairs that the text joins with "; ".                           *)
(***************************************************************************)
Msg(text) == [text |-> text, items |-> <<>>, cause |-> ""]
InvalidData(errors) == [text |-> "Invalid data", items |-> errors, cause |-> ""]
NoMsg == Msg("")
\* f"{text}: {str(e)}" for an exception e that is not an OSConstructionError
Wrapped(text, cause) == [text |-> text, items |-> <<>>, cause |-> cause]

NamedFields(m) == {m.items[i].field : i \in 1..Len(m.items)}
(***************************************************************************)
(* The external store: rows of os_construction and of its three child      *)
(* tables.  f holds the columns a handler writes; id is assigned by the    *)
(* store (uuid_generate_v4) and never reused.                              *)
(***************************************************************************)
Row(table, id, company_id, created_at, updated_at, f) ==
  [table |-> table, id |-> id, company_id |-> company_id,
   created_at |-> created_at, updated_at |-> updated_at, f |-> f]
NoRow == Row("none", 0, 0, 0, 0, EmptyObj)

\* select(...).eq("id", cid).execute().data
SelectById(rows, cid) == {r \in rows : r.id = cid}
RowOf(rows, cid) == CHOOSE r \in rows : r.id = cid

\* delete().eq("id", cid): the company row goes, and with it every child
\* row that references it (ON DELETE CASCADE)
DeleteById(rows, cid) == {r \in rows : r.id # cid}
\* variant of CascadeDelete for a foreign key without ON DELETE CASCADE
\* that the store does not enforce
CascadeDelete_NoCascade(rows, cid) == rows

CascadeDelete(rows, cid) == {r \in rows : r.company_id # cid}

\* The columns of the four tables (os_construction_manager.py,
\* _create_company_table .. _create_employees_table): SQL type, NOT NULL,
\* VARCHAR length, DEFAULT.
Col(name, type, notNull, maxLen, default) ==
  [type |-> type, name |-> name, default |-> default, maxLen |-> maxLen,
   notNull |-> notNull]

Columns(table) ==
  CASE table = "os_construction" ->
         << Col("company_name", "text", TRUE, 255, Null),
            Col("company_address", "text", TRUE, NoMax, Null),
            Col("company_email", "text", TRUE, 255, Null),
            Col("company_phone", "text", TRUE, 50, Null),
            Col("website", "text", FALSE, 255, Null),
            Col("description", "text", FALSE, NoMax, Null),
            Col("founded_year", "int", FALSE, NoMax, Null),
            Col("is_verified", "bool", FALSE, NoMax, "#false") >>
    [] table = "os_construction_services" ->
         << Col("service_name", "text", TRUE, 255, Null),
            Col("description", "text", FALSE, NoMax, Null),
            Col("is_free", "bool", FALSE, NoMax, "#true"),
            Col("eligibility_criteria", "text", FALSE, NoMax, Null) >>
    [] table = "os_construction_projects" ->
         << Col("project_name", "text", TRUE, 255, Null),
            Col("location", "text", TRUE, NoMax, Null),
            Col("start_date", "date", FALSE, NoMax, Null),
            Col("end_date", "date", FALSE, NoMax, Null),
            Col("status", "text", FALSE, 50, "planned"),
            Col("description", "text", FALSE, NoMax, Null),
            Col("beneficiary_info", "text", FALSE, NoMax, Null) >>
    [] OTHER ->
         << Col("full_name", "text", TRUE, 255, Null),
            Col("position", "text", TRUE, 100, Null),
            Col("email", "text", FALSE, 255, Null),
            Col("phone", "text", FALSE, 50, Null),
            Col("specialization", "text", FALSE, 100, Null),
            Col("join_date", "date", FALSE, NoMax, Null) >>

\* the value the store keeps for a JSON value sent to a column, Invalid
\* when the store rejects it
StoreCast(col, v) ==
  CASE v = Null -> IF col.notNull THEN Invalid ELSE Null
    [] col.type = "text" ->
         IF v \in JsonStrings /\ StrLen(v) <= col.maxLen THEN v ELSE Invalid
    [] col.type = "int" ->
         IF v \in JsonNumbers THEN v
         ELSE IF v \in JsonStrings THEN IntOfString(v) ELSE Invalid
    [] col.type = "bool" ->
         IF v \in JsonBools THEN v
         ELSE IF v = "true" THEN "#true" ELSE Invalid
    [] OTHER ->
         IF v \in JsonStrings /\ DateOf(v) # Invalid THEN v ELSE Invalid

\* insert(data) into a table: the columns of the new row (a column that
\* data does not give takes its DEFAULT), ok = FALSE when the store raises
\* (unknown column, NOT NULL or type violation)
StoreInsert(table, data) ==
  LET cols == Columns(table)
      names == {cols[i].name : i \in 1..Len(cols)}
      ColOf(k) == cols[CHOOSE i \in 1..Len(cols) : cols[i].name = k]
      Kept(k) == IF data[k] = Absent THEN StoreCast(ColOf(k), ColOf(k).default)
                 ELSE StoreCast(ColOf(k), data[k])
  IN [f |-> [k \in Keys |-> IF k \in names THEN Kept(k) ELSE Absent],
      ok |-> /\ \A k \in KeysOf(data) :
                    k \in names \cup {"company_id", "created_at", "updated_at"}
             /\ \A k \in names : Kept(k) # Invalid]

\* the instant a TIMESTAMP WITH TIME ZONE column keeps for a JSON string,
\* NoInstant when the store rejects the text; time 0 is the epoch
NoInstant == 0 - 1
TimestampOf(v) ==
  CASE v = "1970-01-01T00:00:00Z" -> 0
    [] OTHER -> NoInstant

\* update(data).eq("id", ...) of a row: the columns that data names are
\* set, every other column keeps its value (no column has an ON UPDATE
\* rule or trigger); ok = FALSE when the store raises
StoreUpdate(table, row, data) ==
  LET cols == Columns(table)
      names == {cols[i].name : i \in 1..Len(cols)}
      ColOf(k) == cols[CHOOSE i \in 1..Len(cols) : cols[i].name = k]
      Stamp(k, old) == IF data[k] = Absent THEN old ELSE TimestampOf(data[k])
  IN [ok |-> /\ \A k \in KeysOf(data) :
                    k \in names \cup {"created_at", "updated_at"}
             /\ \A k \in KeysOf(data) \cap names :
                    StoreCast(ColOf(k), data[k]) # Invalid
             /\ Stamp("created_at", row.created_at) # NoInstant
             /\ Stamp("updated_at", row.updated_at) # NoInstant,
      row |-> [row EXCEPT
                 !.f = [k \in Keys |->
                          IF k \in names /\ data[k] # Absent
                          THEN StoreCast(ColOf(k), data[k]) ELSE row.f[k]],
                 !.created_at = Stamp("created_at", row.created_at),
                 !.updated_at = Stamp("updated_at", row.updated_at)]]

(***************************************************************************)
(* config.py and the start of the application (app_improved.py:21-23).     *)
(* config holds the process environment, whether the module has been       *)
(* loaded, whether loading raised, and the keys of app.config.             *)
(***************************************************************************)
Environ(flask_env, secret_key, jwt_secret_key) ==
  [FLASK_ENV |-> flask_env, SECRET_KEY |-> secret_key,
   JWT_SECRET_KEY |-> jwt_secret_key]

\* os.environ.get(name, default)
EnvironGet(v, default) == IF v = Absent THEN default ELSE v

DefaultSecretKey == "default-secret-key"
DefaultJwtSecretKey == "jwt-secret-key"

\* the mapping `config` of config.py and get_config: the class for
\* FLASK_ENV, DevelopmentConfig when it is unset or names no class.  The
\* class is returned, not an instance of it.
get_config(environ) ==
  LET env == EnvironGet(environ.FLASK_ENV, "default") IN
  CASE env = "production" -> "ProductionConfig"
    [] env = "testing" -> "TestingConfig"
    [] OTHER -> "DevelopmentConfig"

\* ProductionConfig.__init__: whether constructing an instance raises
\* ValueError
ProductionConfig_init_raises(environ) ==
  \/ environ.SECRET_KEY \in {Absent, ""}
  \/ environ.JWT_SECRET_KEY \in {Absent, ""}

\* app.config.from_object(cls): the upper-case attributes of the class are
\* copied; the class body of Config has read them from the environment.
\* Nothing calls the class, so __init__ does not run.
from_object(class, environ) ==
  [SECRET_KEY |-> EnvironGet(environ.SECRET_KEY, DefaultSecretKey),
   JWT_SECRET_KEY |-> EnvironGet(environ.JWT_SECRET_KEY, DefaultJwtSecretKey),
   class |-> class, raised |-> FALSE]

NotStarted(environ) ==
  [environ |-> environ, started |-> FALSE,
   app |-> [SECRET_KEY |-> Absent, JWT_SECRET_KEY |-> Absent, class |-> "none",
            raised |-> FALSE]]

\* `app = Flask(__name__); app.config.from_object(get_config())`
Started(environ) ==
  [environ |-> environ, started |-> TRUE,
   app |-> from_object(get_config(environ), environ)]

(***************************************************************************)
(* authentication.py                                                       *)
(***************************************************************************)
SecondsPerHour == 3600

Jwt(key, sub, username, iat, exp) ==
  [key |-> key, sub |-> sub, username |-> username, iat |-> iat,
   exp |-> exp, kind |-> "jwt"]
Garbage == [key |-> "none", sub |-> "", username |-> "", iat |-> 0,
            exp |-> 0, kind |-> "garbage"]
NoToken == [key |-> "none", sub |-> "", username |-> "", iat |-> 0,
            exp |-> 0, kind |-> "none"]

\* generate_token: utcnow() is read once for exp (t_exp) and once more for
\* iat (t_iat); the token is signed with the configured JWT_SECRET_KEY.
generate_token(user_id, username, expiration, t_exp, t_iat) ==
  Jwt("configured", user_id, username, t_iat, t_exp + expiration * SecondsPerHour)

\* decode_token without the expiry check
decode_token_NoExpiry(token, t, inclusive) ==
  IF token.kind # "jwt" \/ token.key # "configured" THEN "invalid" ELSE "ok"

\* decode_token at time t: "ok", or the AuthenticationError it raises.
\* inclusive: whether the jwt library counts exp = t as expired (it does
\* from PyJWT 2.0 on, it did not before).
decode_token(token, t, inclusive) ==
  IF token.kind # "jwt" \/ token.key # "configured" THEN "invalid"
  ELSE IF token.exp < t \/ (inclusive /\ token.exp = t) THEN "expired"
  ELSE "ok"

DecodeErrorText(outcome) ==
  IF outcome = "expired" THEN "Token expired. Please log in again."
  ELSE "Invalid token. Please log in again."

\* An Authorization header: absent, a scheme other than Bearer, "Bearer "
\* followed by nothing, or "Bearer <token>".
Header(form, token) == [token |-> token, form |-> form]
NoHeader == Header("absent", NoToken)

NoUser == "<unset>"

Gate(admit, status, error, msg, user_id, username) ==
  [msg |-> msg, username |-> username, user_id |-> user_id, admit |-> admit,
   status |-> status, error |-> error]

\* token_required that calls the handler although decoding failed
token_required_AdmitsUndecodable(hdr, t, inclusive) ==
  LET token == IF hdr.form = "bearer" THEN hdr.token ELSE NoToken
  IN IF token = NoToken
     THEN Gate(FALSE, 401, "Authentication required", Msg("Token is missing"),
               NoUser, NoUser)
     ELSE Gate(TRUE, 0, "", NoMsg, token.sub, token.username)

\* token_required: the decision of the decorator for a header at time t.
\* payload['sub'] and payload['username'] raise KeyError for a payload
\* without the key; the decorator catches AuthenticationError only, so the
\* KeyError leaves it (status 0, error "KeyError"), after request.user_id
\* has been set when it is username that is missing.
token_required(hdr, t, inclusive) ==
  LET token == IF hdr.form = "bearer" THEN hdr.token ELSE NoToken
      outcome == decode_token(token, t, inclusive)
  IN IF token = NoToken
     THEN Gate(FALSE, 401, "Authentication required", Msg("Token is missing"),
               NoUser, NoUser)
     ELSE IF outcome = "ok" /\ token.sub = Absent
     THEN Gate(FALSE, 0, "KeyError", Msg("sub"), NoUser, NoUser)
     ELSE IF outcome = "ok" /\ token.username = Absent
     THEN Gate(FALSE, 0, "KeyError", Msg("username"), token.sub, NoUser)
     ELSE IF outcome = "ok"
     THEN Gate(TRUE, 0, "", NoMsg, token.sub, token.username)
     ELSE Gate(FALSE, 401, "Authentication failed",
               Msg(DecodeErrorText(outcome)), NoUser, NoUser)

\* os.environ.get('ADMIN_USER_IDS', '').split(','): env is the value as a
\* sequence of ids and "," separators (<<>> when unset or empty)
RECURSIVE SplitFrom(_, _)
SplitFrom(s, cur) ==
  IF s = <<>> THEN <<cur>>
  ELSE IF Head(s) = "," THEN <<cur>> \o SplitFrom(Tail(s), "")
  ELSE SplitFrom(Tail(s), Head(s))
admin_user_ids(env) ==
  LET l == SplitFrom(env, "") IN {l[i] : i \in 1..Len(l)}

\* admin_required that only looks whether request.user_id is set
admin_required_NoMembership(env, user_id) ==
  IF user_id = NoUser
  THEN Gate(FALSE, 403, "Authorization failed",
            Msg("Admin privileges required"), user_id, NoUser)
  ELSE Gate(TRUE, 0, "", NoMsg, user_id, NoUser)

\* admin_required: the decision of the decorator
admin_required(env, user_id) ==
  IF user_id = NoUser \/ user_id \notin admin_user_ids(env)
  THEN Gate(FALSE, 403, "Authorization failed",
            Msg("Admin privileges required"), user_id, NoUser)
  ELSE Gate(TRUE, 0, "", NoMsg, user_id, NoUser)

(***************************************************************************)
(* app_improved.py: error handlers                                         *)
(***************************************************************************)
Resp(status, error, msg) == [msg |-> msg, status |-> status, error |-> error]

\* handle_custom_exception
handle_custom_exception(kind, msg) ==
  CASE kind = "ResourceNotFoundError" -> Resp(404, "Not Found", msg)
    [] kind = "ValidationError" -> Resp(400, "Validation Error", msg)
    [] kind = "AuthenticationError" -> Resp(401, "Authentication Error", msg)
    [] kind = "AuthorizationError" -> Resp(403, "Authorization Error", msg)
    [] kind = "DatabaseConnectionError" ->
         Resp(503, "Database Connection Error", msg)
    [] OTHER -> Resp(500, "Application Error", msg)

\* handle_generic_exception
handle_generic_exception ==
  Resp(500, "Internal Server Error", Msg("An unexpected error occurred"))
(***************************************************************************)
(* app_improved.py: pagination helpers                                     *)
(***************************************************************************)
\* int(s) for a query string value: [ok |-> FALSE] when python raises
\* ValueError
PyInt(s) ==
  CASE s = "0" -> [val |-> 0, ok |-> TRUE]
    [] s = "-5" -> [val |-> -5, ok |-> TRUE]
    [] s = "1" -> [val |-> 1, ok |-> TRUE]
    [] s = "2" -> [val |-> 2, ok |-> TRUE]
    [] s = "10" -> [val |-> 10, ok |-> TRUE]
    [] s = "100" -> [val |-> 100, ok |-> TRUE]
    [] s = "101" -> [val |-> 101, ok |-> TRUE]
    [] OTHER -> [val |-> 0, ok |-> FALSE]

\* int(request.args.get(name, default)) that falls back to the default
\* when the value is not a number
ArgInt_DefaultOnError(raw, default) ==
  IF raw = Absent \/ ~PyInt(raw).ok THEN [val |-> default, ok |-> TRUE]
  ELSE PyInt(raw)

\* int(request.args.get(name, default))
ArgInt(raw, default) ==
  IF raw = Absent THEN [val |-> default, ok |-> TRUE] ELSE PyInt(raw)

max(a, b) == IF a >= b THEN a ELSE b
min(a, b) == IF a <= b THEN a ELSE b

\* get_pagination_params that does not clamp per_page from above
get_pagination_params_Unclamped(args) ==
  LET p == ArgInt(args.page, 1)
      q == ArgInt(args.per_page, 10)
  IN IF p.ok /\ q.ok
     THEN [ok |-> TRUE, page |-> max(1, p.val), per_page |-> max(1, q.val)]
     ELSE [ok |-> FALSE, page |-> 0, per_page |-> 0]

\* get_pagination_params: ok = FALSE when it raises ValidationError
get_pagination_params(args) ==
  LET p == ArgInt(args.page, 1)
      q == ArgInt(args.per_page, 10)
  IN IF p.ok /\ q.ok
     THEN [ok |-> TRUE, page |-> max(1, p.val),
           per_page |-> max(1, min(100, q.val))]
     ELSE [ok |-> FALSE, page |-> 0, per_page |-> 0]

\* the data envelope; data is the list of the ids of the records
Envelope(data, page, per_page, total, pages) ==
  [data |-> data, page |-> page, per_page |-> per_page, total |-> total,
   pages |-> pages]
NoEnvelope == Envelope(<<>>, 0, 0, 0, 0)

\* format_paginated_response that rounds the number of pages down
format_paginated_response_Floor(data, page, per_page, total) ==
  Envelope(data, page, per_page, total,
           IF total > 0 THEN total \div per_page ELSE 0)

\* format_paginated_response
format_paginated_response(data, page, per_page, total) ==
  Envelope(data, page, per_page, total,
           IF total > 0 THEN (total + per_page - 1) \div per_page ELSE 0)

\* the query string of a list request
Args(page, per_page, is_verified, name, status) ==
  [name |-> name, status |-> status, page |-> page,
   per_page |-> per_page, is_verified |-> is_verified]
NoArgs == Args(Absent, Absent, Absent, Absent, Absent)

(***************************************************************************)
(* Requests.  Each slot holds one request from its arrival to its          *)
(* response; the response stays until the slot takes the next request.     *)
(* reads/writes count the store calls made for the request; existed tells  *)
(* whether the company of the path was stored when the request arrived,    *)
(* before is the row an update replaced; failed tells, for the list        *)
(* endpoints and the health check, that a store call of the request        *)
(* raised.  hist records the ids deleted and *)
(* updated so far and the payload each company was created from.           *)
(***************************************************************************)
Slots == 1..NSlots

Body(kind, obj) == [kind |-> kind, obj |-> obj]
NoBody == Body("none", EmptyObj)

\* What request.json makes of the body.  kind "none": no body or JSON null
\* (None); "object": a JSON object; "falsy": another JSON value that python
\* takes for false ([], 0, false, ""); "array": a JSON value that is neither
\* false nor a mapping ([1], 5, "x"); "malformed": text that is not JSON, for
\* which request.json raises werkzeug's BadRequest
BodyKinds == {"none", "object", "falsy", "array", "malformed"}

\* `if not data`: no body, JSON null, an empty object or another false value
NoData(data) ==
  data.kind \in {"none", "falsy"} \/ (data.kind = "object" /\ KeysOf(data.obj) = {})

\* the exception that `data = request.json` or `Model(**data)` raises for a
\* body that is truthy and not an object; the handlers catch it as Exception
BodyFault(data) ==
  IF data.kind = "malformed"
  THEN "400 Bad Request: Failed to decode JSON object"
  ELSE "argument after ** must be a mapping"

ProtectedRoutes == {"create_company", "update_company", "delete_company",
                    "add_company_service", "add_company_project",
                    "add_company_employee"}
AdminRoutes == {"delete_company"}

Request(route, pc, hdr, cid, body) ==
  [msg |-> NoMsg, cid |-> cid, env |-> NoEnvelope, raised |-> FALSE,
   username |-> NoUser, user_id |-> NoUser, status |-> 0, error |-> "", hdr |-> hdr,
   args |-> NoArgs, page |-> 0, per_page |-> 0,
   total |-> 0, route |-> route, pc |-> pc, body |-> body,
   gateAt |-> 0, roleChecked |-> FALSE, stamp |-> 0, existed |-> FALSE,
   before |-> NoRow, result |-> NoRow, tok |-> NoToken, expires_in |-> 0,
   reads |-> 0, writes |-> 0, failed |-> FALSE, eid |-> 0,
   to |-> 0]
Idle == Request("none", "idle", NoHeader, 0, NoBody)

\* the response r ends request s; rd and wr are the store calls of the step
Finish(s, r, result, rd, wr) ==
  req' = [req EXCEPT ![s] = [@ EXCEPT !.pc = "done", !.status = r.status,
                                      !.error = r.error, !.msg = r.msg,
                                      !.result = result,
                                      !.reads = @ + rd, !.writes = @ + wr]]

\* an OSConstructionError raised by the handler reaches handle_custom_exception
Raise(s, kind, msg, rd, wr) ==
  Finish(s, handle_custom_exception(kind, msg), NoRow, rd, wr)

\* f"{text}: {str(e)}" for the exception e of a store call
StoreDown(text) == [text |-> text, items |-> <<>>, cause |-> "store error"]

UnchangedStore == UNCHANGED <<companies, children, nextId, hist>>
UnchangedEnv == UNCHANGED <<now, adminEnv, storeUp, issued, config>>

\* the clock advances
Tick ==
  /\ now + CoarseTick <= MaxTime
  /\ now' = now + CoarseTick
  /\ UNCHANGED <<adminEnv, storeUp, companies, children, nextId, issued, req,
                 hist, config>>

\* a request reaches the application; a token-protected route starts at
\* the token gate, any other route at its handler
Arrive(s, route, hdr, cid, body) ==
  /\ req[s].pc \in {"idle", "done"}
  /\ req' = [req EXCEPT ![s] =
               [Request(route, IF route \in ProtectedRoutes THEN "token"
                               ELSE "handler", hdr, cid, body)
                EXCEPT !.existed = SelectById(companies, cid) # {}]]
  /\ UnchangedStore /\ UnchangedEnv

\* authentication.py token_required.decorated
TokenRequired(s) ==
  /\ req[s].pc = "token"
  /\ \E inclusive \in BOOLEAN :
       LET g == token_required(req[s].hdr, now, inclusive) IN
       IF g.admit
       THEN req' = [req EXCEPT ![s] =
                      [@ EXCEPT !.pc = IF req[s].route \in AdminRoutes
                                       THEN "admin" ELSE "handler",
                                !.user_id = g.user_id,
                                !.username = g.username,
                                !.gateAt = now]]
       ELSE LET raised == g.error = "KeyError"
                \* an exception that leaves the decorator goes to the
                \* handler that the application registers for Exception
                r == IF raised THEN handle_generic_exception
                     ELSE Resp(g.status, g.error, g.msg)
            IN req' = [req EXCEPT ![s] = [@ EXCEPT !.pc = "done",
                                                   !.status = r.status,
                                                   !.error = r.error,
                                                   !.msg = r.msg,
                                                   !.user_id = g.user_id,
                                                   !.raised = raised,
                                                   !.gateAt = now]]
  /\ UnchangedStore /\ UnchangedEnv

\* authentication.py admin_required.decorated
AdminRequired(s) ==
  /\ req[s].pc = "admin"
  /\ LET g == admin_required(adminEnv, req[s].user_id) IN
     IF g.admit
     THEN req' = [req EXCEPT ![s] = [@ EXCEPT !.pc = "handler",
                                              !.roleChecked = TRUE]]
     ELSE Finish(s, Resp(g.status, g.error, g.msg), NoRow, 0, 0)
  /\ UnchangedStore /\ UnchangedEnv

(***************************************************************************)
(* app_improved.py: POST /api/auth/login                                   *)
(***************************************************************************)
JWT_ACCESS_TOKEN_EXPIRES == 24 * 60 * 60
DefaultExpiration == 24
MaxTokens == 2

\* issued records every token that generate_token returned, with the time
\* of the call
Issue(token, at) == [tok |-> token, at |-> at]
IssuedTokens == {i.tok : i \in issued}

Truthy(v) == v \notin {Absent, Null, "", "#false", "#0"}

\* login; skew is the time that passes between the two clock readings of
\* generate_token
Login(s, skew) ==
  /\ req[s].pc = "handler" /\ req[s].route = "login"
  /\ LET data == req[s].body IN
     IF NoData(data)
     THEN /\ Raise(s, "ValidationError", Msg("No data provided"), 0, 0)
          /\ UNCHANGED <<now, issued>>
     ELSE IF data.kind # "object"
     THEN /\ Raise(s, "AuthenticationError", Msg("Authentication failed"), 0, 0)
          /\ UNCHANGED <<now, issued>>
     ELSE IF ~Truthy(data.obj["username"]) \/ ~Truthy(data.obj["password"])
     THEN /\ Raise(s, "ValidationError",
                   Msg("Username and password are required"), 0, 0)
          /\ UNCHANGED <<now, issued>>
     ELSE IF data.obj["username"] = "admin" /\ data.obj["password"] = "password"
     THEN LET token == generate_token("admin-user-id", data.obj["username"],
                                      DefaultExpiration, now, now + skew)
          IN /\ Cardinality(issued \cup {Issue(token, now)}) <= MaxTokens
             /\ now + skew <= MaxTime
             /\ now' = now + skew
             /\ issued' = issued \cup {Issue(token, now)}
             /\ req' = [req EXCEPT ![s] =
                          [@ EXCEPT !.pc = "done", !.status = 200,
                                    !.tok = token,
                                    !.expires_in = JWT_ACCESS_TOKEN_EXPIRES]]
     ELSE /\ Raise(s, "AuthenticationError", Msg("Invalid credentials"), 0, 0)
          /\ UNCHANGED <<now, issued>>
  /\ UNCHANGED <<adminEnv, storeUp, config>>
  /\ UnchangedStore
(***************************************************************************)
(* app_improved.py: DELETE /api/companies/<company_id>                     *)
(***************************************************************************)
\* delete_company that goes on to the delete without looking at the result
\* of the existence check
delete_company_check_Unchecked(s) ==
  /\ req[s].pc = "handler" /\ req[s].route = "delete_company"
  /\ IF ~storeUp
     THEN Raise(s, "DatabaseConnectionError",
                StoreDown("Failed to delete company: store error"), 1, 0)
     ELSE req' = [req EXCEPT ![s] = [@ EXCEPT !.pc = "delete",
                                              !.reads = @ + 1]]
  /\ UnchangedStore /\ UnchangedEnv

\* delete_company up to its first store call, the existence check
delete_company_check(s) ==
  /\ req[s].pc = "handler" /\ req[s].route = "delete_company"
  /\ IF ~storeUp
     THEN Raise(s, "DatabaseConnectionError",
                StoreDown("Failed to delete company: store error"), 1, 0)
     ELSE IF SelectById(companies, req[s].cid) = {}
     THEN Raise(s, "ResourceNotFoundError", Msg("Company not found"), 1, 0)
     ELSE req' = [req EXCEPT ![s] = [@ EXCEPT !.pc = "delete",
                                              !.reads = @ + 1]]
  /\ UnchangedStore /\ UnchangedEnv

\* delete_company from the delete call to the response
delete_company_delete(s) ==
  /\ req[s].pc = "delete"
  /\ IF ~storeUp
     THEN /\ Raise(s, "DatabaseConnectionError",
                   StoreDown("Failed to delete company: store error"), 0, 1)
          /\ UnchangedStore
     ELSE IF SelectById(companies, req[s].cid) = {}
     THEN /\ Raise(s, "DatabaseConnectionError",
                   Msg("Failed to delete company"), 0, 1)
          /\ UnchangedStore
     ELSE /\ companies' = DeleteById(companies, req[s].cid)
          /\ children' = CascadeDelete(children, req[s].cid)
          /\ hist' = [hist EXCEPT !.deleted = @ \cup {req[s].cid}]
          /\ Finish(s, Resp(200, "", Msg("Company deleted successfully")),
                    NoRow, 0, 1)
          /\ UNCHANGED nextId
  /\ UnchangedEnv

(***************************************************************************)
(* app_improved.py: PUT /api/companies/<company_id>                        *)
(***************************************************************************)
\* company_data.dict() with the None values left in
CompanyUpdateDbData_KeepsNone(values) == values

\* {k: v for k, v in company_data.dict().items() if v is not None}: the
\* columns the update writes, Absent for a column it does not write
CompanyUpdateDbData(values) ==
  [k \in Keys |-> IF values[k] = Null THEN Absent ELSE values[k]]

\* update(db_data).eq("id", cid): the row after the update
UpdatedRow(row, db_data, updated_at) ==
  [row EXCEPT !.f = [k \in Keys |-> IF db_data[k] # Absent THEN db_data[k]
                                     ELSE row.f[k]],
              !.updated_at = updated_at]

\* update_company up to its first store call: the payload is validated,
\* updated_at is stamped, then the existence check is made
update_company_check(s) ==
  /\ req[s].pc = "handler" /\ req[s].route = "update_company"
  /\ LET data == req[s].body
         v == ValidateModel(CompanyUpdate, data.obj)
     IN
     IF NoData(data)
     THEN Raise(s, "ValidationError", Msg("No data provided"), 0, 0)
     ELSE IF data.kind # "object"
     THEN Raise(s, "DatabaseConnectionError",
                Wrapped("Failed to update company", BodyFault(data)), 0, 0)
     ELSE IF v.errors # <<>>
     THEN Raise(s, "ValidationError", InvalidData(v.errors), 0, 0)
     ELSE IF ~storeUp
     THEN Raise(s, "DatabaseConnectionError",
                StoreDown("Failed to update company: store error"), 1, 0)
     ELSE IF SelectById(companies, req[s].cid) = {}
     THEN Raise(s, "ResourceNotFoundError", Msg("Company not found"), 1, 0)
     ELSE req' = [req EXCEPT ![s] = [@ EXCEPT !.pc = "update",
                                              !.stamp = now,
                                              !.reads = @ + 1]]
  /\ UnchangedStore /\ UnchangedEnv

\* update_company from the update call to the response
update_company_update(s) ==
  /\ req[s].pc = "update"
  /\ LET db_data == CompanyUpdateDbData(
                      ValidateModel(CompanyUpdate, req[s].body.obj).values)
     IN
     IF ~storeUp
     THEN /\ Raise(s, "DatabaseConnectionError",
                   StoreDown("Failed to update company: store error"), 0, 1)
          /\ UNCHANGED <<companies, hist>>
     ELSE IF SelectById(companies, req[s].cid) = {}
     THEN /\ Raise(s, "DatabaseConnectionError",
                   Msg("Failed to update company"), 0, 1)
          /\ UNCHANGED <<companies, hist>>
     ELSE LET old == RowOf(companies, req[s].cid)
              new == UpdatedRow(old, db_data, req[s].stamp)
          IN /\ companies' = (companies \ {old}) \cup {new}
             /\ hist' = [hist EXCEPT !.updated = @ \cup {req[s].cid}]
             /\ req' = [req EXCEPT ![s] =
                          [@ EXCEPT !.pc = "done", !.status = 200,
                                    !.result = new, !.before = old,
                                    !.writes = @ + 1]]
  /\ UNCHANGED <<children, nextId>>
  /\ UnchangedEnv

(***************************************************************************)
(* app_improved.py: POST /api/companies and GET /api/companies/<id>        *)
(***************************************************************************)
\* create_company: validation, timestamps and the insert
create_company(s) ==
  /\ req[s].pc = "handler" /\ req[s].route = "create_company"
  /\ LET data == req[s].body
         v == ValidateModel(CompanyCreate, data.obj)
         ins == StoreInsert("os_construction", v.values)
         new == Row("os_construction", nextId, 0, now, now, ins.f)
     IN
     IF NoData(data)
     THEN Raise(s, "ValidationError", Msg("No data provided"), 0, 0)
          /\ UnchangedStore
     ELSE IF data.kind # "object"
     THEN Raise(s, "DatabaseConnectionError",
                Wrapped("Failed to create company", BodyFault(data)), 0, 0)
          /\ UnchangedStore
     ELSE IF v.errors # <<>>
     THEN Raise(s, "ValidationError", InvalidData(v.errors), 0, 0)
          /\ UnchangedStore
     ELSE IF ~storeUp \/ ~ins.ok
     THEN Raise(s, "DatabaseConnectionError",
                StoreDown("Failed to create company: store error"), 0, 1)
          /\ UnchangedStore
     ELSE /\ nextId <= MaxIds
          /\ companies' = companies \cup {new}
          /\ nextId' = nextId + 1
          /\ hist' = [hist EXCEPT !.created =
                         @ \cup {[data |-> data.obj, id |-> nextId]}]
          /\ Finish(s, Resp(201, "", NoMsg), new, 0, 1)
          /\ UNCHANGED children
  /\ UnchangedEnv

\* get_company
get_company(s) ==
  /\ req[s].pc = "handler" /\ req[s].route = "get_company"
  /\ IF ~storeUp
     THEN Raise(s, "DatabaseConnectionError",
                StoreDown("Failed to retrieve company: store error"), 1, 0)
     ELSE IF SelectById(companies, req[s].cid) = {}
     THEN Raise(s, "ResourceNotFoundError", Msg("Company not found"), 1, 0)
     ELSE Finish(s, Resp(200, "", NoMsg), RowOf(companies, req[s].cid), 1, 0)
  /\ UnchangedStore /\ UnchangedEnv

(***************************************************************************)
(* app_improved.py: POST /api/companies/<id>/services, /projects and       *)
(* /employees                                                              *)
(***************************************************************************)
ChildSchema(route) ==
  CASE route = "add_company_service" -> ServiceCreate
    [] route = "add_company_project" -> ProjectCreate
    [] OTHER -> EmployeeCreate

ChildTable(route) ==
  CASE route = "add_company_service" -> "os_construction_services"
    [] route = "add_company_project" -> "os_construction_projects"
    [] OTHER -> "os_construction_employees"

\* `if db_data.get(k): db_data[k] = db_data[k].isoformat()` for the date
\* columns (add_company_project, add_company_employee)
ChildDbData(values) ==
  [k \in Keys |-> IF k \in {"start_date", "end_date", "join_date"}
                      /\ values[k] \notin {Absent, Null}
                   THEN isoformat(values[k]) ELSE values[k]]

\* add_company_service / _project / _employee up to the first store call:
\* the payload is validated, then the company is looked up
AddChildCheck(s, route) ==
  /\ req[s].pc = "handler" /\ req[s].route = route
  /\ LET data == req[s].body
         v == ValidateModel(ChildSchema(route), data.obj)
     IN
     IF NoData(data)
     THEN Raise(s, "ValidationError", Msg("No data provided"), 0, 0)
     ELSE IF data.kind # "object"
     THEN Raise(s, "DatabaseConnectionError",
                Wrapped("Failed to add", BodyFault(data)), 0, 0)
     ELSE IF v.errors # <<>>
     THEN Raise(s, "ValidationError", InvalidData(v.errors), 0, 0)
     ELSE IF ~storeUp
     THEN Raise(s, "DatabaseConnectionError",
                StoreDown("Failed to add: store error"), 1, 0)
     ELSE IF SelectById(companies, req[s].cid) = {}
     THEN Raise(s, "ResourceNotFoundError", Msg("Company not found"), 1, 0)
     ELSE req' = [req EXCEPT ![s] = [@ EXCEPT !.pc = "insert",
                                              !.reads = @ + 1]]
  /\ UnchangedStore /\ UnchangedEnv

add_company_service_check(s) == AddChildCheck(s, "add_company_service")
add_company_project_check(s) == AddChildCheck(s, "add_company_project")
add_company_employee_check(s) == AddChildCheck(s, "add_company_employee")

\* add_company_service / _project / _employee from the insert to the
\* response; the store refuses a row whose company_id references no
\* company
add_child_insert(s) ==
  /\ req[s].pc = "insert"
  /\ LET route == req[s].route
         v == ValidateModel(ChildSchema(route), req[s].body.obj)
         ins == StoreInsert(ChildTable(route), ChildDbData(v.values))
         new == Row(ChildTable(route), nextId, req[s].cid, now, now, ins.f)
     IN
     IF ~storeUp \/ ~ins.ok \/ SelectById(companies, req[s].cid) = {}
     THEN Raise(s, "DatabaseConnectionError",
                StoreDown("Failed to add: store error"), 0, 1)
          /\ UnchangedStore
     ELSE /\ nextId <= MaxIds
          /\ children' = children \cup {new}
          /\ nextId' = nextId + 1
          /\ Finish(s, Resp(201, "", NoMsg), new, 0, 1)
          /\ UNCHANGED <<companies, hist>>
  /\ UnchangedEnv

(***************************************************************************)
(* app.py: the handlers without gate and without schema                    *)
(***************************************************************************)
\* app.py error handlers: BadRequest, NotFound, any other exception
legacy_error(kind, msg) ==
  CASE kind = "BadRequest" -> Resp(400, "Bad Request", msg)
    [] kind = "NotFound" -> Resp(404, "Not Found", msg)
    [] OTHER -> Resp(500, "Internal Server Error", msg)

required_fields(route) ==
  CASE route = "legacy_create_company" ->
         <<"company_name", "company_address", "company_email", "company_phone">>
    [] route = "legacy_add_company_service" -> <<"service_name">>
    [] route = "legacy_add_company_project" -> <<"project_name", "location">>
    [] OTHER -> <<"full_name", "position">>

\* `for field in required_fields: if field not in data: raise BadRequest`
\* the first required field that is not in data, Absent when none is
FirstMissing(fields, data) ==
  IF \E i \in 1..Len(fields) : data[fields[i]] = Absent
  THEN fields[CHOOSE i \in 1..Len(fields) :
                /\ data[fields[i]] = Absent
                /\ \A j \in 1..(i - 1) : data[fields[j]] # Absent]
  ELSE Absent

MissingField(f) ==
  [text |-> "Missing required field",
   items |-> << [field |-> f, msg |-> "Missing required field"] >>,
   cause |-> ""]

LegacyTable(route) ==
  CASE route = "legacy_create_company" -> "os_construction"
    [] route = "legacy_add_company_service" -> "os_construction_services"
    [] route = "legacy_add_company_project" -> "os_construction_projects"
    [] OTHER -> "os_construction_employees"

\* app.py create_company
legacy_create_company(s) ==
  /\ req[s].pc = "handler" /\ req[s].route = "legacy_create_company"
  /\ LET data == req[s].body
         missing == FirstMissing(required_fields(req[s].route), data.obj)
         ins == StoreInsert("os_construction", data.obj)
         new == Row("os_construction", nextId, 0, now, now, ins.f)
     IN
     IF NoData(data)
     THEN Finish(s, legacy_error("BadRequest", Msg("No data provided")), NoRow, 0, 0)
          /\ UnchangedStore
     ELSE IF missing # Absent
     THEN Finish(s, legacy_error("BadRequest", MissingField(missing)), NoRow, 0, 0)
          /\ UnchangedStore
     ELSE IF ~storeUp \/ ~ins.ok
     THEN Finish(s, legacy_error("Exception", StoreDown("store error")), NoRow, 0, 1)
          /\ UnchangedStore
     ELSE /\ nextId <= MaxIds
          /\ companies' = companies \cup {new}
          /\ nextId' = nextId + 1
          /\ hist' = [hist EXCEPT !.created =
                         @ \cup {[data |-> data.obj, id |-> nextId]}]
          /\ Finish(s, Resp(201, "", NoMsg), new, 0, 1)
          /\ UNCHANGED children
  /\ UnchangedEnv

\* app.py add_company_service / _project / _employee up to the first
\* store call: required fields, then the company is looked up
LegacyAddChildCheck(s, route) ==
  /\ req[s].pc = "handler" /\ req[s].route = route
  /\ LET data == req[s].body
         missing == FirstMissing(required_fields(route), data.obj)
     IN
     IF NoData(data)
     THEN Finish(s, legacy_error("BadRequest", Msg("No data provided")), NoRow, 0, 0)
     ELSE IF missing # Absent
     THEN Finish(s, legacy_error("BadRequest", MissingField(missing)), NoRow, 0, 0)
     ELSE IF ~storeUp
     THEN Finish(s, legacy_error("Exception", StoreDown("store error")), NoRow, 1, 0)
     ELSE IF SelectById(companies, req[s].cid) = {}
     THEN Finish(s, legacy_error("NotFound", Msg("Company not found")), NoRow, 1, 0)
     ELSE req' = [req EXCEPT ![s] = [@ EXCEPT !.pc = "legacy_insert",
                                              !.reads = @ + 1]]
  /\ UnchangedStore /\ UnchangedEnv

legacy_add_company_service_check(s) ==
  LegacyAddChildCheck(s, "legacy_add_company_service")
legacy_add_company_project_check(s) ==
  LegacyAddChildCheck(s, "legacy_add_company_project")
legacy_add_company_employee_check(s) ==
  LegacyAddChildCheck(s, "legacy_add_company_employee")

\* app.py add_company_service / _project / _employee: the insert
legacy_add_child_insert(s) ==
  /\ req[s].pc = "legacy_insert"
  /\ LET route == req[s].route
         ins == StoreInsert(LegacyTable(route), req[s].body.obj)
         new == Row(LegacyTable(route), nextId, req[s].cid, now, now, ins.f)
     IN
     IF ~storeUp \/ ~ins.ok \/ SelectById(companies, req[s].cid) = {}
     THEN Finish(s, legacy_error("Exception", StoreDown("store error")), NoRow, 0, 1)
          /\ UnchangedStore
     ELSE /\ nextId <= MaxIds
          /\ children' = children \cup {new}
          /\ nextId' = nextId + 1
          /\ Finish(s, Resp(201, "", NoMsg), new, 0, 1)
          /\ UNCHANGED <<companies, hist>>
  /\ UnchangedEnv

\* app.py update_company up to the existence check
legacy_update_company_check(s) ==
  /\ req[s].pc = "handler" /\ req[s].route = "legacy_update_company"
  /\ IF NoData(req[s].body)
     THEN Finish(s, legacy_error("BadRequest", Msg("No data provided")), NoRow, 0, 0)
     ELSE IF ~storeUp
     THEN Finish(s, legacy_error("Exception", StoreDown("store error")), NoRow, 1, 0)
     ELSE IF SelectById(companies, req[s].cid) = {}
     THEN Finish(s, legacy_error("NotFound", Msg("Company not found")), NoRow, 1, 0)
     ELSE req' = [req EXCEPT ![s] = [@ EXCEPT !.pc = "legacy_update",
                                              !.reads = @ + 1]]
  /\ UnchangedStore /\ UnchangedEnv

\* app.py update_company: the request body goes to the store as it is
legacy_update_company_update(s) ==
  /\ req[s].pc = "legacy_update"
  /\ LET found == SelectById(companies, req[s].cid)
         old == CHOOSE r \in found : TRUE
         upd == StoreUpdate("os_construction", old, req[s].body.obj)
     IN
     IF ~storeUp \/ found = {} \/ ~upd.ok
     THEN Finish(s, legacy_error("Exception", StoreDown("store error")), NoRow, 0, 1)
          /\ UnchangedStore
     ELSE /\ companies' = (companies \ {old}) \cup {upd.row}
          /\ req' = [req EXCEPT ![s] =
                       [@ EXCEPT !.pc = "done", !.status = 200,
                                 !.result = upd.row, !.before = old,
                                 !.stamp = now, !.writes = @ + 1]]
          /\ UNCHANGED <<children, nextId, hist>>
  /\ UnchangedEnv

\* app.py delete_company up to the existence check
legacy_delete_company_check(s) ==
  /\ req[s].pc = "handler" /\ req[s].route = "legacy_delete_company"
  /\ IF ~storeUp
     THEN Finish(s, legacy_error("Exception", StoreDown("store error")), NoRow, 1, 0)
     ELSE IF SelectById(companies, req[s].cid) = {}
     THEN Finish(s, legacy_error("NotFound", Msg("Company not found")), NoRow, 1, 0)
     ELSE req' = [req EXCEPT ![s] = [@ EXCEPT !.pc = "legacy_delete",
                                              !.reads = @ + 1]]
  /\ UnchangedStore /\ UnchangedEnv

\* app.py delete_company: the delete; its result is not looked at
legacy_delete_company_delete(s) ==
  /\ req[s].pc = "legacy_delete"
  /\ IF ~storeUp
     THEN Finish(s, legacy_error("Exception", StoreDown("store error")), NoRow, 0, 1)
          /\ UnchangedStore
     ELSE /\ companies' = DeleteById(companies, req[s].cid)
          /\ children' = CascadeDelete(children, req[s].cid)
          /\ hist' = [hist EXCEPT !.deleted = @ \cup {req[s].cid}]
          /\ Finish(s, Resp(200, "", Msg("Company deleted successfully")),
                    NoRow, 0, 1)
          /\ UNCHANGED nextId
  /\ UnchangedEnv

(***************************************************************************)
(* app_improved.py: the list endpoints and the health check.  A step is    *)
(* the handler up to and including one store call; the store may fail or   *)
(* recover between two calls.                                              *)
(***************************************************************************)
ListRoutes == {"get_companies", "get_company_services",
               "get_company_projects", "get_company_employees"}
ChildListRoutes == ListRoutes \ {"get_companies"}

ListTable(route) ==
  CASE route = "get_companies" -> "os_construction"
    [] route = "get_company_services" -> "os_construction_services"
    [] route = "get_company_projects" -> "os_construction_projects"
    [] OTHER -> "os_construction_employees"

TableRows(table) ==
  IF table = "os_construction" THEN companies
  ELSE {r \in children : r.table = table}

\* str.lower() of a query string value
Lower(v) == IF v = "True" THEN "true" ELSE v

\* company_name ILIKE %pattern%
ILike(value, pattern) ==
  CASE pattern = "ac" -> value = "Acme"
    [] pattern = "BO" -> value = "Bolt"
    [] OTHER -> FALSE

\* the rows that the data query of the list handler selects
ListQuery(route, cid, args) ==
  CASE route = "get_companies" ->
         {r \in companies :
            /\ args.is_verified # Absent =>
                 r.f["is_verified"] = (IF Lower(args.is_verified) = "true"
                                       THEN "#true" ELSE "#false")
            /\ Truthy(args.name) => ILike(r.f["company_name"], args.name)}
    [] route = "get_company_projects" ->
         {r \in TableRows(ListTable(route)) :
            /\ r.company_id = cid
            /\ Truthy(args.status) => r.f["status"] = args.status}
    [] OTHER -> {r \in TableRows(ListTable(route)) : r.company_id = cid}

\* the ids of the rows, in the order in which the store returns them
RECURSIVE IdsInOrder(_)
IdsInOrder(ids) ==
  IF ids = {} THEN <<>>
  ELSE LET m == CHOOSE x \in ids : \A y \in ids : x <= y
       IN <<m>> \o IdsInOrder(ids \ {m})

\* paginate_query whose offset is page * per_page
paginate_query_FromPage(rows, page, per_page) ==
  LET all == IdsInOrder({r.id : r \in rows})
      offset == page * per_page
  IN IF offset >= Len(all) THEN <<>>
     ELSE SubSeq(all, offset + 1, min(offset + per_page, Len(all)))

\* paginate_query: query.range(offset, offset + per_page - 1)
paginate_query(rows, page, per_page) ==
  LET all == IdsInOrder({r.id : r \in rows})
      offset == (page - 1) * per_page
  IN IF offset >= Len(all) THEN <<>>
     ELSE SubSeq(all, offset + 1, min(offset + per_page, Len(all)))

\* get_total_count: the size of the table, 0 when the store call raises
get_total_count(table) ==
  IF storeUp THEN Cardinality(TableRows(table)) ELSE 0

\* a list request reaches the application
ArriveList(s, route, cid, args) ==
  /\ req[s].pc \in {"idle", "done"}
  /\ req' = [req EXCEPT ![s] =
               [Request(route, "handler", NoHeader, cid, NoBody)
                EXCEPT !.args = args,
                       !.existed = SelectById(companies, cid) # {}]]
  /\ UnchangedStore /\ UnchangedEnv

InvalidPagination == Msg("Invalid pagination parameters")

\* a store call of the list handler raises: the except clause wraps the
\* exception in a DatabaseConnectionError
ListStoreError(s) ==
  LET r == handle_custom_exception("DatabaseConnectionError",
                                   StoreDown("Failed to retrieve"))
  IN req' = [req EXCEPT ![s] =
               [@ EXCEPT !.pc = "done", !.status = r.status,
                         !.error = r.error, !.msg = r.msg,
                         !.failed = TRUE, !.reads = @ + 1]]

\* the body of the unhealthy answer: it has no message, its error is str(e)
Unhealthy == [text |-> Absent, items |-> <<>>, cause |-> "store error"]

\* get_companies up to get_total_count
get_companies_count(s) ==
  /\ req[s].pc = "handler" /\ req[s].route = "get_companies"
  /\ LET p == get_pagination_params(req[s].args) IN
     IF ~p.ok
     THEN Raise(s, "ValidationError", InvalidPagination, 0, 0)
     ELSE req' = [req EXCEPT ![s] =
                    [@ EXCEPT !.pc = "list_query", !.page = p.page,
                              !.per_page = p.per_page,
                              !.total = get_total_count("os_construction"),
                              !.failed = ~storeUp,
                              !.reads = @ + 1]]
  /\ UnchangedStore /\ UnchangedEnv

\* get_company_services / _projects / _employees up to the existence
\* check; get_company_projects looks at the status filter after it
list_check(s) ==
  /\ req[s].pc = "handler" /\ req[s].route \in ChildListRoutes
  /\ LET p == get_pagination_params(req[s].args)
         status == req[s].args.status
     IN
     IF ~p.ok
     THEN Raise(s, "ValidationError", InvalidPagination, 0, 0)
     ELSE IF ~storeUp
     THEN ListStoreError(s)
     ELSE IF SelectById(companies, req[s].cid) = {}
     THEN Raise(s, "ResourceNotFoundError", Msg("Company not found"), 1, 0)
     ELSE IF /\ req[s].route = "get_company_projects"
             /\ Truthy(status) /\ status \notin valid_statuses
     THEN Raise(s, "ValidationError", Msg("Invalid status"), 1, 0)
     ELSE req' = [req EXCEPT ![s] =
                    [@ EXCEPT !.pc = "list_count", !.page = p.page,
                              !.per_page = p.per_page, !.reads = @ + 1]]
  /\ UnchangedStore /\ UnchangedEnv

\* the count of the child lists: get_total_count of the table for
\* services, the length of the filtered query for projects, the exact
\* count of the company's rows for employees
list_count(s) ==
  /\ req[s].pc = "list_count"
  /\ LET route == req[s].route
         rows == ListQuery(route, req[s].cid, req[s].args)
     IN
     IF route = "get_company_services"
     THEN req' = [req EXCEPT ![s] =
                    [@ EXCEPT !.pc = "list_query",
                              !.total = get_total_count(ListTable(route)),
                              !.failed = ~storeUp,
                              !.reads = @ + 1]]
     ELSE IF ~storeUp
     THEN ListStoreError(s)
     ELSE req' = [req EXCEPT ![s] =
                    [@ EXCEPT !.pc = "list_query",
                              !.total = Cardinality(rows),
                              !.reads = @ + 1]]
  /\ UnchangedStore /\ UnchangedEnv

\* the paginated data query and the envelope
list_query(s) ==
  /\ req[s].pc = "list_query"
  /\ LET r == req[s]
         data == paginate_query(ListQuery(r.route, r.cid, r.args), r.page,
                                r.per_page)
     IN
     IF ~storeUp
     THEN ListStoreError(s)
     ELSE req' = [req EXCEPT ![s] =
                    [@ EXCEPT !.pc = "done", !.status = 200,
                              !.env = format_paginated_response(
                                        data, r.page, r.per_page, r.total),
                              !.reads = @ + 1]]
  /\ UnchangedStore /\ UnchangedEnv

\* health_check: {status: healthy, ...} with 200, or {status: unhealthy,
\* error: str(e), ...} with 500 when the store call raises
health_check(s) ==
  /\ req[s].pc = "handler" /\ req[s].route = "health_check"
  /\ IF storeUp
     THEN Finish(s, Resp(200, "", NoMsg), NoRow, 1, 0)
     ELSE req' = [req EXCEPT ![s] =
                    [@ EXCEPT !.pc = "done", !.status = 500,
                              !.error = "store error", !.msg = Unhealthy,
                              !.failed = TRUE, !.reads = @ + 1]]
  /\ UnchangedStore /\ UnchangedEnv

\* the store becomes unreachable, and reachable again
StoreFails ==
  /\ storeUp /\ storeUp' = FALSE
  /\ UNCHANGED <<now, adminEnv, companies, children, nextId, issued, req, hist,
                 config>>

StoreRecovers ==
  /\ ~storeUp /\ storeUp' = TRUE
  /\ UNCHANGED <<now, adminEnv, companies, children, nextId, issued, req, hist,
                 config>>

(***************************************************************************)
(* os_construction_manager.py: OSConstructionManager called with a dict.   *)
(* There is no HTTP status: the response holds the class of the exception  *)
(* that the method raises.                                                 *)
(***************************************************************************)
ManagerRaise(s, kind, msg, rd, wr) == Finish(s, Resp(0, kind, msg), NoRow, rd, wr)

\* DatabaseError(f"Failed to add project: {str(e)}") for a pydantic error e
FailedToAdd(errors) ==
  [text |-> "Failed to add project", items |-> errors, cause |-> "pydantic error"]

\* add_company called with a dict: CompanyCreate(**company_data),
\* timestamps and the insert; the pydantic error is none of the classes
\* that the except clause re-raises
manager_add_company(s) ==
  /\ req[s].pc = "handler" /\ req[s].route = "manager_add_company"
  /\ LET v == ValidateModel(CompanyCreate, req[s].body.obj)
         ins == StoreInsert("os_construction", v.values)
         new == Row("os_construction", nextId, 0, now, now, ins.f)
     IN
     IF v.errors # <<>>
     THEN ManagerRaise(s, "DatabaseError",
                       [FailedToAdd(v.errors) EXCEPT !.text = "Failed to add company"],
                       0, 0)
          /\ UnchangedStore
     ELSE IF ~storeUp \/ ~ins.ok
     THEN ManagerRaise(s, "DatabaseError",
                       StoreDown("Failed to add company: store error"), 0, 1)
          /\ UnchangedStore
     ELSE /\ nextId <= MaxIds
          /\ companies' = companies \cup {new}
          /\ nextId' = nextId + 1
          /\ hist' = [hist EXCEPT !.created =
                         @ \cup {[data |-> req[s].body.obj, id |-> nextId]}]
          /\ Finish(s, Resp(0, "", NoMsg), new, 0, 1)
          /\ UNCHANGED children
  /\ UnchangedEnv

\* add_project up to its first store call, the existence check
manager_add_project_check(s) ==
  /\ req[s].pc = "handler" /\ req[s].route = "manager_add_project"
  /\ IF ~storeUp
     THEN ManagerRaise(s, "DatabaseError",
                       StoreDown("Failed to add project: store error"), 1, 0)
     ELSE IF SelectById(companies, req[s].cid) = {}
     THEN ManagerRaise(s, "ResourceNotFoundError", Msg("Company not found"), 1, 0)
     ELSE req' = [req EXCEPT ![s] = [@ EXCEPT !.pc = "manager_insert",
                                              !.reads = @ + 1]]
  /\ UnchangedStore /\ UnchangedEnv

\* add_project from ProjectCreate(**project_data) to the return: the
\* pydantic error is none of the classes that the except clause re-raises
manager_add_project_insert(s) ==
  /\ req[s].pc = "manager_insert"
  /\ LET v == ValidateModel(ProjectCreate, req[s].body.obj)
         ins == StoreInsert("os_construction_projects", ChildDbData(v.values))
         new == Row("os_construction_projects", nextId, req[s].cid, now, now,
                    ins.f)
     IN
     IF v.errors # <<>>
     THEN ManagerRaise(s, "DatabaseError", FailedToAdd(v.errors), 0, 0)
          /\ UnchangedStore
     ELSE IF ~storeUp \/ ~ins.ok \/ SelectById(companies, req[s].cid) = {}
     THEN ManagerRaise(s, "DatabaseError",
                       StoreDown("Failed to add project: store error"), 0, 1)
          /\ UnchangedStore
     ELSE /\ nextId <= MaxIds
          /\ children' = children \cup {new}
          /\ nextId' = nextId + 1
          /\ Finish(s, Resp(0, "", NoMsg), new, 0, 1)
          /\ UNCHANGED <<companies, hist>>
  /\ UnchangedEnv

\* the employee row with the given id in the given company
EmployeeIn(rows, eid, cid) ==
  {r \in rows : /\ r.table = "os_construction_employees"
                 /\ r.id = eid /\ r.company_id = cid}

\* a call transfer_employee(eid, from, to)
ArriveTransfer(s, eid, from, to) ==
  /\ req[s].pc \in {"idle", "done"}
  /\ req' = [req EXCEPT ![s] =
               [Request("transfer_employee", "handler", NoHeader, from, NoBody)
                EXCEPT !.eid = eid, !.to = to,
                       !.existed = SelectById(companies, from) # {}]]
  /\ UnchangedStore /\ UnchangedEnv

\* transfer_employee up to the select of the employee in its company
transfer_employee_check(s) ==
  /\ req[s].pc = "handler" /\ req[s].route = "transfer_employee"
  /\ IF ~storeUp
     THEN ManagerRaise(s, "DatabaseError",
                       StoreDown("Failed to transfer employee"), 1, 0)
     ELSE IF EmployeeIn(children, req[s].eid, req[s].cid) = {}
     THEN ManagerRaise(s, "ResourceNotFoundError", Msg("Employee not found"), 1, 0)
     ELSE req' = [req EXCEPT ![s] = [@ EXCEPT !.pc = "transfer_company",
                                              !.reads = @ + 1]]
  /\ UnchangedStore /\ UnchangedEnv

\* transfer_employee: the select of the destination company
transfer_employee_company(s) ==
  /\ req[s].pc = "transfer_company"
  /\ IF ~storeUp
     THEN ManagerRaise(s, "DatabaseError",
                       StoreDown("Failed to transfer employee"), 1, 0)
     ELSE IF SelectById(companies, req[s].to) = {}
     THEN ManagerRaise(s, "ResourceNotFoundError",
                       Msg("Destination company not found"), 1, 0)
     ELSE req' = [req EXCEPT ![s] = [@ EXCEPT !.pc = "transfer_update",
                                              !.reads = @ + 1]]
  /\ UnchangedStore /\ UnchangedEnv

\* transfer_employee: update_data with the clock reading, and the update
\* of the employee row; the store refuses a company_id that references no
\* company
transfer_employee_update(s) ==
  /\ req[s].pc = "transfer_update"
  /\ LET found == {r \in children : r.table = "os_construction_employees"
                                     /\ r.id = req[s].eid}
     IN
     IF ~storeUp \/ SelectById(companies, req[s].to) = {}
     THEN /\ ManagerRaise(s, "DatabaseError",
                          StoreDown("Failed to transfer employee"), 0, 1)
          /\ UNCHANGED children
     ELSE IF found = {}
     THEN /\ ManagerRaise(s, "DatabaseError",
                          Msg("Failed to transfer employee"), 0, 1)
          /\ UNCHANGED children
     ELSE LET old == CHOOSE r \in found : TRUE
              new == [old EXCEPT !.company_id = req[s].to, !.updated_at = now]
          IN /\ children' = (children \ {old}) \cup {new}
             /\ req' = [req EXCEPT ![s] =
                          [@ EXCEPT !.pc = "done", !.stamp = now,
                                    !.result = new, !.before = old,
                                    !.writes = @ + 1]]
  /\ UNCHANGED <<companies, nextId, hist>>
  /\ UnchangedEnv

(***************************************************************************)
(* Initial states.  The store is external and outlives the process: it     *)
(* starts with the given company rows.                                     *)
(***************************************************************************)
AdminEnvs == { <<>>, <<"admin-user-id">>, <<"root-id">>,
               <<"root-id", ",", "admin-user-id">> }

AcmePayload == Obj([company_name |-> "Acme", company_address |-> "1 Main St",
                    company_email |-> "info@acme.org",
                    company_phone |-> "555-0100"])

SeedCompany(id) ==
  Row("os_construction", id, 0, 0, 0,
      ValidateModel(CompanyCreate, AcmePayload).values)

\* an environment that sets both keys and names no FLASK_ENV
PlainEnviron == Environ(Absent, "s3cret", "s3cret")

InitWith(seed, tokens) ==
  /\ now = 0
  /\ config = Started(PlainEnviron)
  /\ adminEnv \in AdminEnvs
  /\ storeUp = TRUE
  /\ companies = {SeedCompany(i) : i \in 1..seed}
  /\ children = {}
  /\ nextId = seed + 1
  /\ issued = tokens
  /\ req = [s \in Slots |-> Idle]
  /\ hist = [deleted |-> {}, updated |-> {}, created |-> {}]

(***************************************************************************)
(* The gate: login, the admin-only DELETE and the token-only PUT, one      *)
(* request at a time, over a store that holds one company.                 *)
(***************************************************************************)
ForgedToken == Jwt("other", "admin-user-id", "admin", 0, MaxTime + 1)

\* what a client can put in the Authorization header: nothing, another
\* scheme, "Bearer " alone, garbage, a token signed with a key of its own,
\* or a token that login issued
ClientHeaders ==
  {NoHeader, Header("basic", NoToken), Header("bearer", NoToken),
   Header("bearer", Garbage), Header("bearer", ForgedToken)}
  \cup {Header("bearer", t) : t \in IssuedTokens}

Credentials ==
  {Body("object", Obj([username |-> u, password |-> p])) :
     u \in {"admin", "Ann"}, p \in {"password", "123"}}

RenamePayload == Obj([company_name |-> "Bolt"])

\* the time that may pass between two successive readings of the clock
Skews == {0, 1}

InitAuth == InitWith(1, {})

ArriveAuth ==
  \/ \E c \in Credentials : Arrive(1, "login", NoHeader, 0, c)
  \/ \E h \in ClientHeaders, cid \in 1..2 :
       Arrive(1, "delete_company", h, cid, NoBody)
  \/ \E h \in ClientHeaders :
       Arrive(1, "update_company", h, 1, Body("object", RenamePayload))

NextAuth ==
  \/ Tick
  \/ ArriveAuth
  \/ TokenRequired(1)
  \/ AdminRequired(1)
  \/ \E skew \in Skews : Login(1, skew)
  \/ delete_company_check(1)
  \/ delete_company_delete(1)
  \/ update_company_check(1)
  \/ update_company_update(1)

SpecAuth == InitAuth /\ [][NextAuth]_vars
(***************************************************************************)
(* Companies: create, get, update and delete, one request at a time, by a  *)
(* client that holds a token of the administrator issued at time 0.        *)
(***************************************************************************)
AdminToken == generate_token("admin-user-id", "admin", DefaultExpiration, 0, 0)
AdminHeader == Header("bearer", AdminToken)

InitCrud ==
  /\ InitWith(1, {Issue(AdminToken, 0)})
  /\ adminEnv = <<"admin-user-id">>

\* Company payloads: the required fields only; every field, some of them
\* as strings that the schema converts, and a key the schema does not have;
\* every field in the type of its column.
BoltPayload == Obj([is_verified |-> "true", company_name |-> "Bolt",
                    company_address |-> "1 Main St",
                    company_email |-> "info@Acme.ORG", company_phone |-> "555-0100",
                    website |-> "acme.org", description |-> Null,
                    founded_year |-> "1999", nickname |-> "Ann"])
TypedPayload == Obj([is_verified |-> "#true", company_name |-> "Bolt",
                     company_address |-> "1 Main St",
                     company_email |-> "info@acme.org", company_phone |-> "555-0100",
                     website |-> "acme.org", founded_year |-> "#1999"])
CreatePayloads == {AcmePayload, BoltPayload}

UpdatePayloads ==
  {RenamePayload,
   Obj([website |-> "acme.org", description |-> Null, founded_year |-> "1999"]),
   Obj([company_phone |-> "123"])}

CompanyIds == 0..MaxIds

ArriveCrud ==
  \/ \E p \in CreatePayloads :
       Arrive(1, "create_company", AdminHeader, 0, Body("object", p))
  \/ \E cid \in CompanyIds : Arrive(1, "get_company", NoHeader, cid, NoBody)
  \/ \E cid \in CompanyIds, p \in UpdatePayloads :
       Arrive(1, "update_company", AdminHeader, cid, Body("object", p))

NextCrud ==
  \/ Tick
  \/ ArriveCrud
  \/ TokenRequired(1)
  \/ create_company(1)
  \/ get_company(1)
  \/ update_company_check(1)
  \/ update_company_update(1)

SpecCrud == InitCrud /\ [][NextCrud]_vars

(***************************************************************************)
(* Deletion: the admin-only DELETE and the DELETE of app.py, one request   *)
(* at a time.                                                              *)
(***************************************************************************)
ArriveDelete ==
  \/ Arrive(1, "create_company", AdminHeader, 0, Body("object", AcmePayload))
  \/ \E cid \in CompanyIds :
       Arrive(1, "delete_company", AdminHeader, cid, NoBody)
  \/ \E cid \in CompanyIds :
       Arrive(1, "legacy_delete_company", NoHeader, cid, NoBody)

NextDelete ==
  \/ Tick
  \/ ArriveDelete
  \/ TokenRequired(1)
  \/ AdminRequired(1)
  \/ create_company(1)
  \/ delete_company_check(1)
  \/ delete_company_delete(1)
  \/ legacy_delete_company_check(1)
  \/ legacy_delete_company_delete(1)

SpecDelete == InitCrud /\ [][NextDelete]_vars

(***************************************************************************)
(* Creation of companies and of their services, projects and employees,    *)
(* through the validated and the unvalidated handlers, one request at a    *)
(* time, over a store that holds company 1.                                *)
(***************************************************************************)
InitCreate ==
  /\ InitWith(1, {Issue(AdminToken, 0)})
  /\ adminEnv = <<"admin-user-id">>

\* payloads that lack required fields or hold values the schema refuses
BadCompanyPayloads ==
  {EmptyObj,
   Obj([company_name |-> "Acme", company_phone |-> "555-0100"]),
   Obj([company_name |-> "", company_address |-> "1 Main St",
        company_email |-> "not-an-email", company_phone |-> "123"]),
   Obj([company_address |-> "1 Main St", company_email |-> "info@acme.org",
        company_phone |-> "555-0100", founded_year |-> "#1700"])}

\* a project that ends before it starts
LateStartPayload ==
  Obj([project_name |-> "Paving", location |-> "1 Main St",
       start_date |-> "2024-06-30", end_date |-> "2024-01-01"])

ServicePayloads ==
  {Obj([service_name |-> "Paving"]),
   Obj([description |-> "Paving", is_free |-> "finished"]),
   EmptyObj}
ProjectPayloads ==
  {Obj([project_name |-> "Paving", location |-> "1 Main St",
        start_date |-> "2024-01-01", end_date |-> "2024-06-30"]),
   Obj([status |-> "finished"]),
   Obj([project_name |-> "Paving"]),
   LateStartPayload}
EmployeePayloads ==
  {Obj([full_name |-> "Ann", position |-> "Mason"]),
   Obj([email |-> "not-an-email"]),
   Obj([position |-> "Mason", join_date |-> "2024-01-01"])}

ChildPayloads(route) ==
  CASE route \in {"add_company_service", "legacy_add_company_service"} ->
         ServicePayloads
    [] route \in {"add_company_project", "legacy_add_company_project"} ->
         ProjectPayloads
    [] OTHER -> EmployeePayloads

ChildRoutes == {"add_company_service", "add_company_project",
                "add_company_employee"}
LegacyChildRoutes == {"legacy_add_company_service", "legacy_add_company_project",
                      "legacy_add_company_employee"}

ArriveCreate ==
  \/ \E p \in {AcmePayload, TypedPayload} \cup BadCompanyPayloads :
       Arrive(1, "create_company", AdminHeader, 0, Body("object", p))
  \/ \E p \in {AcmePayload} \cup BadCompanyPayloads :
       Arrive(1, "legacy_create_company", NoHeader, 0, Body("object", p))
  \/ \E route \in ChildRoutes, cid \in 1..2 : \E p \in ChildPayloads(route) :
       Arrive(1, route, AdminHeader, cid, Body("object", p))
  \/ \E route \in LegacyChildRoutes, cid \in 1..2 : \E p \in ChildPayloads(route) :
       Arrive(1, route, NoHeader, cid, Body("object", p))
  \/ \E cid \in 1..2, p \in ProjectPayloads :
       Arrive(1, "manager_add_project", NoHeader, cid, Body("object", p))

NextCreate ==
  \/ ArriveCreate
  \/ TokenRequired(1)
  \/ create_company(1)
  \/ add_company_service_check(1)
  \/ add_company_project_check(1)
  \/ add_company_employee_check(1)
  \/ add_child_insert(1)
  \/ legacy_create_company(1)
  \/ legacy_add_company_service_check(1)
  \/ legacy_add_company_project_check(1)
  \/ legacy_add_company_employee_check(1)
  \/ legacy_add_child_insert(1)
  \/ manager_add_project_check(1)
  \/ manager_add_project_insert(1)

SpecCreate == InitCreate /\ [][NextCreate]_vars

(***************************************************************************)
(* The pagination envelope: format_paginated_response applied to every     *)
(* total up to MaxTotal, every per_page that get_pagination_params can     *)
(* return and every page up to MaxPage.                                    *)
(***************************************************************************)
MaxTotal == 25
MaxPage == 2
PerPageRange == 1..100

\* a call of format_paginated_response with the given arguments
PageCall(page, per_page, total) ==
  [Request("format_paginated_response", "handler", NoHeader, 0, NoBody)
   EXCEPT !.page = page, !.per_page = per_page, !.total = total]

FormatPage(s) ==
  /\ req[s].route = "format_paginated_response" /\ req[s].pc = "handler"
  /\ req' = [req EXCEPT ![s] =
               [@ EXCEPT !.pc = "done",
                         !.env = format_paginated_response(<<>>, req[s].page,
                                      req[s].per_page, req[s].total)]]
  /\ UnchangedStore /\ UnchangedEnv

InitPages ==
  /\ now = 0 /\ adminEnv = <<>> /\ storeUp = TRUE
  /\ config = Started(PlainEnviron)
  /\ companies = {} /\ children = {} /\ nextId = 1 /\ issued = {}
  /\ hist = [deleted |-> {}, updated |-> {}, created |-> {}]
  /\ \E page \in 1..MaxPage, per_page \in PerPageRange, total \in 0..MaxTotal :
       req = [s \in Slots |-> IF s = 1 THEN PageCall(page, per_page, total)
                              ELSE Idle]

NextPages == FormatPage(1)

SpecPages == InitPages /\ [][NextPages]_vars

(***************************************************************************)
(* Lists: the four list endpoints and the health check, one request at a   *)
(* time, over a store with two companies (one of them verified) and their  *)
(* services, projects and employees, that may fail and recover.            *)
(***************************************************************************)
VerifiedCompany(id) ==
  Row("os_construction", id, 0, 0, 0,
      ValidateModel(CompanyCreate, BoltPayload).values)

ChildRow(table, id, company_id, payload) ==
  Row(table, id, company_id, 0, 0, StoreInsert(table, payload).f)

InitList ==
  /\ now = 0 /\ adminEnv = <<>> /\ storeUp = TRUE /\ issued = {}
  /\ config = Started(PlainEnviron)
  /\ companies = {SeedCompany(1), VerifiedCompany(2)}
  /\ children =
       {ChildRow("os_construction_services", 3, 1, Obj([service_name |-> "Paving"])),
        ChildRow("os_construction_services", 4, 2, Obj([service_name |-> "Paving"])),
        ChildRow("os_construction_projects", 5, 1,
                 Obj([project_name |-> "Paving", location |-> "1 Main St"])),
        ChildRow("os_construction_projects", 6, 1,
                 Obj([status |-> "completed", project_name |-> "Paving",
                      location |-> "1 Main St"])),
        ChildRow("os_construction_employees", 7, 1,
                 Obj([full_name |-> "Ann", position |-> "Mason"])),
        ChildRow("os_construction_employees", 8, 2,
                 Obj([full_name |-> "Ann", position |-> "Mason"]))}
  /\ nextId = 9
  /\ req = [s \in Slots |-> Idle]
  /\ hist = [deleted |-> {}, updated |-> {}, created |-> {}]

PageArgs == {Absent, "0", "2", "abc"}
PerPageArgs == {Absent, "1", "-5", "101", ""}
VerifiedArgs == {Absent, "True", "no"}
NameArgs == {Absent, "ac"}
StatusArgs == {Absent, "completed", "finished"}
ListCompanyIds == {1, 2, 9}

ArriveLists ==
  \/ \E p \in PageArgs, q \in PerPageArgs, v \in VerifiedArgs, n \in NameArgs :
       ArriveList(1, "get_companies", 0, Args(p, q, v, n, Absent))
  \/ \E route \in ChildListRoutes, cid \in ListCompanyIds :
       \E p \in PageArgs, q \in PerPageArgs,
          st \in (IF route = "get_company_projects" THEN StatusArgs ELSE {Absent}) :
         ArriveList(1, route, cid, Args(p, q, Absent, Absent, st))
  \/ Arrive(1, "health_check", NoHeader, 0, NoBody)

NextList ==
  \/ ArriveLists
  \/ get_companies_count(1)
  \/ list_check(1)
  \/ list_count(1)
  \/ list_query(1)
  \/ health_check(1)
  \/ StoreFails
  \/ StoreRecovers

SpecList == InitList /\ [][NextList]_vars

(***************************************************************************)
(* Timestamps: creation and update of a company, creation of an employee   *)
(* and its transfer, one request at a time, over a store that starts       *)
(* empty.                                                                  *)
(***************************************************************************)
InitStamp ==
  /\ InitWith(0, {Issue(AdminToken, 0)})
  /\ adminEnv = <<"admin-user-id">>

StampIds == 1..MaxIds

\* bodies of PUT /api/companies/<id> of app.py: a new name; a creation
\* time; a column the table does not have
BackdatePayload == Obj([created_at |-> "1970-01-01T00:00:00Z"])
LegacyUpdatePayloads == {RenamePayload, BackdatePayload,
                         Obj([nickname |-> "Acme"])}

ArriveStamp ==
  \/ Arrive(1, "create_company", AdminHeader, 0, Body("object", AcmePayload))
  \/ \E cid \in StampIds :
       Arrive(1, "update_company", AdminHeader, cid, Body("object", RenamePayload))
  \/ \E cid \in StampIds :
       Arrive(1, "add_company_employee", AdminHeader, cid,
              Body("object", Obj([full_name |-> "Ann", position |-> "Mason"])))
  \/ \E eid \in StampIds, from \in StampIds, to \in StampIds :
       ArriveTransfer(1, eid, from, to)
  \/ \E cid \in StampIds, data \in LegacyUpdatePayloads :
       Arrive(1, "legacy_update_company", NoHeader, cid, Body("object", data))

NextStamp ==
  \/ Tick
  \/ ArriveStamp
  \/ TokenRequired(1)
  \/ create_company(1)
  \/ update_company_check(1)
  \/ update_company_update(1)
  \/ add_company_employee_check(1)
  \/ add_child_insert(1)
  \/ transfer_employee_check(1)
  \/ transfer_employee_company(1)
  \/ transfer_employee_update(1)
  \/ legacy_update_company_check(1)
  \/ legacy_update_company_update(1)

SpecStamp == InitStamp /\ [][NextStamp]_vars

(***************************************************************************)
(* Two requests at a time over a store that holds company 1: slot 1        *)
(* creates services, projects and employees, slot 2 deletes companies.     *)
(* Every store call is one step, so a delete may fall between the          *)
(* existence check of a creation and its insert.                           *)
(***************************************************************************)
RaceIds == 1..MaxIds

ValidChild(route) ==
  CASE route \in {"add_company_service", "legacy_add_company_service"} ->
         Obj([service_name |-> "Paving"])
    [] route \in {"add_company_project", "legacy_add_company_project",
                  "manager_add_project"} ->
         Obj([project_name |-> "Paving", location |-> "1 Main St",
              start_date |-> "2024-01-01", end_date |-> "2024-06-30"])
    [] OTHER -> Obj([full_name |-> "Ann", position |-> "Mason"])

ArriveRace ==
  \/ \E route \in ChildRoutes, cid \in RaceIds :
       Arrive(1, route, AdminHeader, cid, Body("object", ValidChild(route)))
  \/ \E route \in LegacyChildRoutes, cid \in RaceIds :
       Arrive(1, route, NoHeader, cid, Body("object", ValidChild(route)))
  \/ \E cid \in RaceIds :
       Arrive(1, "manager_add_project", NoHeader, cid,
              Body("object", ValidChild("manager_add_project")))
  \/ \E cid \in RaceIds :
       Arrive(2, "delete_company", AdminHeader, cid, NoBody)
  \/ \E cid \in RaceIds :
       Arrive(2, "legacy_delete_company", NoHeader, cid, NoBody)

NextRace ==
  \/ ArriveRace
  \/ TokenRequired(1)
  \/ add_company_service_check(1)
  \/ add_company_project_check(1)
  \/ add_company_employee_check(1)
  \/ add_child_insert(1)
  \/ legacy_add_company_service_check(1)
  \/ legacy_add_company_project_check(1)
  \/ legacy_add_company_employee_check(1)
  \/ legacy_add_child_insert(1)
  \/ manager_add_project_check(1)
  \/ manager_add_project_insert(1)
  \/ TokenRequired(2)
  \/ AdminRequired(2)
  \/ delete_company_check(2)
  \/ delete_company_delete(2)
  \/ legacy_delete_company_check(2)
  \/ legacy_delete_company_delete(2)

SpecRace == InitCreate /\ [][NextRace]_vars

(***************************************************************************)
(* The mutating endpoints of app_improved.py under every kind of request   *)
(* body, one request at a time, over a store that holds company 1.         *)
(***************************************************************************)
MutatingRoutes == {"create_company", "update_company"} \cup ChildRoutes

\* a body that the schema of the route accepts
ValidBody(route) ==
  CASE route = "create_company" -> AcmePayload
    [] route = "update_company" -> RenamePayload
    [] OTHER -> ValidChild(route)

\* the bodies a client can send to the route: one of each kind
Bodies(route) ==
  {Body(kind, EmptyObj) : kind \in BodyKinds} \cup {Body("object", ValidBody(route))}

ArriveBody ==
  \E route \in MutatingRoutes, cid \in 1..MaxIds : \E body \in Bodies(route) :
    Arrive(1, route, AdminHeader, cid, body)

NextBody ==
  \/ ArriveBody
  \/ TokenRequired(1)
  \/ create_company(1)
  \/ update_company_check(1)
  \/ update_company_update(1)
  \/ add_company_service_check(1)
  \/ add_company_project_check(1)
  \/ add_company_employee_check(1)
  \/ add_child_insert(1)

SpecBody == InitCreate /\ [][NextBody]_vars

(***************************************************************************)
(* Transfers of one employee by concurrent callers of the manager, next    *)
(* to deletions of companies, over a store that holds companies 1 and 2    *)
(* and an employee of company 1.  Every store call is one step.            *)
(***************************************************************************)
TheEmployee == MaxIds + 1

InitTransfer ==
  /\ now = 0
  /\ config = Started(PlainEnviron)
  /\ adminEnv = <<"admin-user-id">>
  /\ storeUp = TRUE
  /\ companies = {SeedCompany(1), SeedCompany(2)}
  /\ children = {Row("os_construction_employees", TheEmployee, 1, 0, 0,
                     ValidateModel(EmployeeCreate,
                                   ValidChild("add_company_employee")).values)}
  /\ nextId = TheEmployee + 1
  /\ issued = {}
  /\ req = [s \in Slots |-> Idle]
  /\ hist = [deleted |-> {}, updated |-> {}, created |-> {}]

ArriveTransfers ==
  \/ \E s \in Slots, from \in 1..2, to \in 1..2 :
       ArriveTransfer(s, TheEmployee, from, to)
  \/ \E cid \in 1..2 :
       Arrive(NSlots, "legacy_delete_company", NoHeader, cid, NoBody)

NextTransfer ==
  \/ ArriveTransfers
  \/ \E s \in Slots : transfer_employee_check(s)
  \/ \E s \in Slots : transfer_employee_company(s)
  \/ \E s \in Slots : transfer_employee_update(s)
  \/ legacy_delete_company_check(NSlots)
  \/ legacy_delete_company_delete(NSlots)

SpecTransfer == InitTransfer /\ [][NextTransfer]_vars

(***************************************************************************)
(* The manager called with dicts, valid and invalid, one call at a time,   *)
(* over a store that holds company 1 and that may fail and recover.        *)
(***************************************************************************)
ManagerRoutes == {"manager_add_company", "manager_add_project"}

ManagerSchema(route) ==
  IF route = "manager_add_company" THEN CompanyCreate ELSE ProjectCreate

ArriveManager ==
  \/ \E p \in {AcmePayload} \cup BadCompanyPayloads :
       Arrive(1, "manager_add_company", NoHeader, 0, Body("object", p))
  \/ \E cid \in 1..MaxIds, p \in ProjectPayloads :
       Arrive(1, "manager_add_project", NoHeader, cid, Body("object", p))

NextManager ==
  \/ ArriveManager
  \/ manager_add_company(1)
  \/ manager_add_project_check(1)
  \/ manager_add_project_insert(1)
  \/ StoreFails
  \/ StoreRecovers

SpecManager == InitCreate /\ [][NextManager]_vars

(***************************************************************************)
(* The start of the application under every environment, followed by       *)
(* logins: the tokens that login issues are signed with                    *)
(* app.config JWT_SECRET_KEY.                                              *)
(***************************************************************************)
FlaskEnvs == {Absent, "development", "testing", "production", "staging"}
KeySettings == {Absent, "", "s3cret"}
Environs == {Environ(e, k, j) : e \in FlaskEnvs, k \in KeySettings, j \in KeySettings}

InitConfig ==
  /\ now = 0
  /\ adminEnv = <<"admin-user-id">>
  /\ storeUp = TRUE
  /\ companies = {} /\ children = {} /\ nextId = 1
  /\ issued = {}
  /\ req = [s \in Slots |-> Idle]
  /\ hist = [deleted |-> {}, updated |-> {}, created |-> {}]
  /\ config \in {NotStarted(e) : e \in Environs}

\* the module app_improved is loaded
AppStart ==
  /\ ~config.started
  /\ config' = Started(config.environ)
  /\ UNCHANGED <<now, adminEnv, storeUp, companies, children, nextId, issued,
                 req, hist>>

\* requests are served once the module is loaded without an exception
Serving == config.started /\ ~config.app.raised

NextConfig ==
  \/ AppStart
  \/ Serving /\ \E c \in Credentials : Arrive(1, "login", NoHeader, 0, c)
  \/ Serving /\ Login(1, 0)

SpecConfig == InitConfig /\ [][NextConfig]_vars

(***************************************************************************)
(* Concurrent DELETE requests of the administrator over a store that       *)
(* holds company 1.  Every store call is one step.                         *)
(***************************************************************************)
NextDeletes ==
  \/ \E s \in Slots, cid \in 1..MaxIds :
       Arrive(s, "delete_company", AdminHeader, cid, NoBody)
  \/ \E s \in Slots : TokenRequired(s)
  \/ \E s \in Slots : AdminRequired(s)
  \/ \E s \in Slots : delete_company_check(s)
  \/ \E s \in Slots : delete_company_delete(s)

SpecDeletes == InitCreate /\ [][NextDeletes]_vars

(***************************************************************************)
(* The admin-only DELETE under every allow-list, requested with tokens     *)
(* that generate_token has signed for several subject ids, the empty       *)
(* string among them.                                                      *)
(***************************************************************************)
Subjects == {"", "admin-user-id", "root-id", "Ann"}
SubjectToken(u) == generate_token(u, "admin", DefaultExpiration, 0, 0)

InitAdmin == InitWith(1, {Issue(SubjectToken(u), 0) : u \in Subjects})

NextAdmin ==
  \/ \E u \in Subjects, cid \in 1..MaxIds :
       Arrive(1, "delete_company", Header("bearer", SubjectToken(u)), cid, NoBody)
  \/ TokenRequired(1)
  \/ AdminRequired(1)
  \/ delete_company_check(1)
  \/ delete_company_delete(1)

SpecAdmin == InitAdmin /\ [][NextAdmin]_vars

(***************************************************************************)
(* The token gate under every Authorization header, among them tokens      *)
(* signed with the configured key whose payload lacks sub or username,     *)
(* on the token-only PUT, one request at a time.                           *)
(***************************************************************************)
\* tokens signed with the configured key by its holder; generate_token
\* always puts sub and username in the payload
NoSubToken == Jwt("configured", Absent, "admin", 0, MaxTime + 1)
NoUsernameToken == Jwt("configured", "admin-user-id", Absent, 0, MaxTime + 1)
ShortToken == generate_token("admin-user-id", "admin", 12, 0, 0)

TokenHeaders ==
  ClientHeaders \cup {Header("bearer", t) :
                        t \in {AdminToken, ShortToken, NoSubToken, NoUsernameToken}}

InitToken ==
  /\ InitWith(1, {Issue(AdminToken, 0), Issue(ShortToken, 0)})
  /\ adminEnv = <<"admin-user-id">>

NextToken ==
  \/ Tick
  \/ \E h \in TokenHeaders, cid \in 1..MaxIds :
       Arrive(1, "update_company", h, cid, Body("object", RenamePayload))
  \/ TokenRequired(1)
  \/ update_company_check(1)
  \/ update_company_update(1)

SpecToken == InitToken /\ [][NextToken]_vars

(***************************************************************************)
(* The validated handlers given payloads that name server-assigned         *)
(* fields, one request at a time, over a store that holds company 1.       *)
(***************************************************************************)
ServerKeys == {"id", "company_id", "created_at", "updated_at"}

\* the payload with values for the server-assigned fields added
Forged(data) ==
  [k \in Keys |->
     CASE k \in {"id", "company_id"} -> "123"
       [] k \in {"created_at", "updated_at"} -> "1970-01-01T00:00:00Z"
       [] OTHER -> data[k]]

ArriveFrame ==
  \E route \in MutatingRoutes, cid \in 1..MaxIds :
    \E data \in {ValidBody(route), Forged(ValidBody(route))} :
      Arrive(1, route, AdminHeader, cid, Body("object", data))

NextFrame ==
  \/ Tick
  \/ ArriveFrame
  \/ TokenRequired(1)
  \/ create_company(1)
  \/ update_company_check(1)
  \/ update_company_update(1)
  \/ add_company_service_check(1)
  \/ add_company_project_check(1)
  \/ add_company_employee_check(1)
  \/ add_child_insert(1)

SpecFrame == InitCreate /\ [][NextFrame]_vars

(***************************************************************************)
(* Properties of the gate                                                  *)
(***************************************************************************)
GateErrors == {"Authentication required", "Authentication failed",
               "Authorization failed"}
HandlerPcs == {"handler", "delete", "update", "insert", "legacy_insert",
               "legacy_delete", "manager_insert", "list_count", "list_query",
               "transfer_company", "transfer_update", "legacy_update"}

\* the handler body of the request has started
HandlerRan(r) ==
  r.pc \in HandlerPcs \/ (r.pc = "done" /\ r.error \notin GateErrors /\ ~r.raised)

\* the token gate has decided on the request
GateRan(r) == r.route \in ProtectedRoutes /\ r.pc \notin {"idle", "token"}

HasToken(r) == r.hdr.form = "bearer" /\ r.hdr.token # NoToken

\* the request carries a token that generate_token returned and whose
\* expiry had not passed when the gate looked at it
CarriesLiveToken(r) ==
  /\ HasToken(r)
  /\ \E i \in issued : i.tok = r.hdr.token /\ r.gateAt <= i.tok.exp

\* C1: on a token-protected route the handler body and every store call
\* come after the token has been verified, on the admin-only route after
\* the role check, which comes after the token verification; a request
\* that a gate step rejected made no store call, and no store call is made
\* while the request is at the gate.
C1_GateBeforeHandler ==
  \A s \in Slots :
    LET r == req[s] IN
    r.route \in ProtectedRoutes =>
      /\ (HandlerRan(r) \/ r.reads + r.writes > 0) =>
            /\ CarriesLiveToken(r)
            /\ r.user_id = r.hdr.token.sub
            /\ (r.route \in AdminRoutes => r.roleChecked)
      /\ (r.pc = "admin" \/ r.roleChecked) => CarriesLiveToken(r)
      /\ (r.pc \in {"token", "admin"} \/ (r.pc = "done" /\ r.error \in GateErrors))
            => r.reads = 0 /\ r.writes = 0

\* C1 witness: an admitted DELETE has passed both gate steps and has made
\* a store call
C1_Witness ==
  \E s \in Slots : /\ req[s].route = "delete_company"
                    /\ req[s].roleChecked
                    /\ req[s].reads > 0

\* the ids that ADMIN_USER_IDS lists
ConfiguredAllowList(env) == {env[i] : i \in 1..Len(env)} \ {","}

TokenExpiredAtGate(r) ==
  HasToken(r) /\ \E i \in issued : i.tok = r.hdr.token /\ r.gateAt > i.tok.exp

TokenLiveAtGate(r) ==
  HasToken(r) /\ \E i \in issued : i.tok = r.hdr.token /\ r.gateAt < i.tok.exp

\* C2: the response of DELETE /api/companies/{id} is 401 without a token,
\* 401 with the expired-token message for an expired token, and 403 with
\* nothing deleted for a live token whose subject the allow-list does not
\* name; a 401 is never given to a live token and a 403 only to one.
C2_AdminRouteStatus ==
  \A s \in Slots :
    LET r == req[s] IN
    (r.route = "delete_company" /\ r.pc = "done") =>
      /\ ~HasToken(r) => r.status = 401
      /\ TokenExpiredAtGate(r) =>
            r.status = 401 /\ r.msg = Msg("Token expired. Please log in again.")
      /\ (TokenLiveAtGate(r) /\ r.hdr.token.sub \notin ConfiguredAllowList(adminEnv))
            => r.status = 403 /\ r.writes = 0 /\ r.reads = 0
      /\ r.status = 401 => ~TokenLiveAtGate(r)
      /\ r.status = 403 =>
            CarriesLiveToken(r) /\ r.hdr.token.sub \notin ConfiguredAllowList(adminEnv)

\* C2 witness: a DELETE with a live token of a subject that is not an
\* admin was answered 403 while the company is still stored
C2_Witness ==
  \E s \in Slots : /\ req[s].route = "delete_company" /\ req[s].pc = "done"
                    /\ req[s].status = 403
                    /\ TokenLiveAtGate(req[s])
                    /\ SelectById(companies, req[s].cid) # {}

TwentyFourHours == 24 * 60 * 60

\* C3: the gate accepts a token that generate_token returned at time t
\* whenever it sees it before t + 24h and rejects it as expired whenever it
\* sees it after t + 24h; it rejects as invalid every token that is garbage
\* or signed with another key; and it accepts nothing else.
C3_TokenLifetime ==
  \A s \in Slots :
    LET r == req[s]
        admitted == r.pc # "done" \/ r.error \notin {"Authentication required",
                                                     "Authentication failed"}
    IN
    (GateRan(r) /\ HasToken(r)) =>
      /\ \A i \in issued : i.tok = r.hdr.token =>
            /\ r.gateAt < i.at + TwentyFourHours => admitted
            /\ r.gateAt > i.at + TwentyFourHours =>
                  /\ ~admitted
                  /\ r.msg = Msg("Token expired. Please log in again.")
      /\ (r.hdr.token.kind # "jwt" \/ r.hdr.token.key # "configured") =>
            /\ ~admitted
            /\ r.msg = Msg("Invalid token. Please log in again.")
      /\ admitted => \E i \in issued : /\ i.tok = r.hdr.token
                                       /\ r.gateAt <= i.at + TwentyFourHours

\* C3 witness: a token that had been accepted is rejected as expired once
\* 24 hours have passed since it was issued
C3_Witness ==
  \E s \in Slots : \E i \in issued :
    /\ GateRan(req[s]) /\ req[s].hdr.token = i.tok
    /\ req[s].gateAt > i.at + TwentyFourHours
    /\ req[s].status = 401

\* C4: a login with a credential pair ends either with status 200, an
\* issued token and expires_in = 86400 = exp - iat of that token, or with
\* 401 Authentication Error and no token.
C4_LoginOutcome ==
  \A s \in Slots :
    LET r == req[s] IN
    (r.route = "login" /\ r.pc = "done") =>
      \/ /\ r.status = 200
         /\ r.tok \in IssuedTokens
         /\ r.expires_in = TwentyFourHours
         /\ r.tok.exp - r.tok.iat = r.expires_in
      \/ /\ r.status = 401 /\ r.error = "Authentication Error"
         /\ r.tok = NoToken
(***************************************************************************)
(* Properties of the company and child handlers                            *)
(***************************************************************************)
ChildCreateRoutes == ChildRoutes \cup LegacyChildRoutes
CreateRoutes == {"create_company", "legacy_create_company"} \cup ChildCreateRoutes

\* C5: an admitted request that creates a service, project or employee
\* from a non-empty payload under a company id that is not stored is
\* answered 404, whatever the validity of the payload.
C5_ParentCheckFirst ==
  \A s \in Slots :
    LET r == req[s] IN
    (r.route \in ChildRoutes /\ r.pc = "done" /\ HandlerRan(r)
       /\ r.body.obj # EmptyObj /\ storeUp
       /\ SelectById(companies, r.cid) = {} /\ ~r.existed) => r.status = 404

DeleteRoutes == {"delete_company", "legacy_delete_company"}

\* C6: with one request at a time and the store available, the step that
\* ends an admitted DELETE answers 200 and removes the company when the
\* company was stored, and answers 404 and leaves the store as it was when
\* it was not (never created, or deleted before).
C6_DeleteTwice ==
  [][\A s \in Slots :
       (/\ req[s].route \in DeleteRoutes
        /\ req[s].pc \in {"handler", "delete", "legacy_delete"}
        /\ req'[s].pc = "done")
       => IF req[s].existed
          THEN /\ req'[s].status = 200
               /\ SelectById(companies, req[s].cid) # {}
               /\ SelectById(companies', req[s].cid) = {}
          ELSE /\ req'[s].status = 404
               /\ companies' = companies /\ children' = children]_vars

\* C6 witness: the second DELETE of a company that the first one removed
\* was answered 404
C6_Witness ==
  \E s \in Slots : /\ req[s].route = "delete_company" /\ req[s].pc = "done"
                    /\ req[s].cid \in hist.deleted
                    /\ ~req[s].existed
                    /\ req[s].status = 404

\* the value the schema makes of a raw value of the payloads above
ExpectedValue(k, v) ==
  CASE k = "founded_year" /\ v = "1999" -> "#1999"
    [] k = "company_email" /\ v = "info@Acme.ORG" -> "info@acme.org"
    [] k = "is_verified" /\ v = "true" -> "#true"
    [] OTHER -> v

CompanyFields == {"company_name", "company_address", "company_email",
                  "company_phone", "website", "description", "founded_year",
                  "is_verified"}

\* the field is present and not null in the payload
Written(data, k) == k \in CompanyFields /\ data[k] \notin {Absent, Null}

\* C7: the step that completes a successful update gives the fields that
\* are present and non-null in the payload their validated values and
\* stamps updated_at; every other field of the company, its id and
\* created_at, every other company and every child row stay as they were;
\* when the company already has the values of the payload only updated_at
\* changes.
C7_PartialUpdate ==
  [][\A s \in Slots :
       (req[s].pc = "update" /\ req'[s].pc = "done" /\ req'[s].status = 200)
       => LET data == req[s].body.obj
              old == RowOf(companies, req[s].cid)
              new == RowOf(companies', req[s].cid)
          IN /\ SelectById(companies, req[s].cid) # {}
             /\ SelectById(companies', req[s].cid) # {}
             /\ \A k \in Keys :
                  new.f[k] = IF Written(data, k) THEN ExpectedValue(k, data[k])
                             ELSE old.f[k]
             /\ new.updated_at = req[s].stamp
             /\ [new EXCEPT !.f = old.f, !.updated_at = old.updated_at] = old
             /\ companies' \ {new} = companies \ {old}
             /\ children' = children
             /\ (\A k \in Keys : Written(data, k) => old.f[k] = ExpectedValue(k, data[k]))
                  => [new EXCEPT !.updated_at = old.updated_at] = old]_vars

\* C7 witness: an update was applied to a company that already had the
\* values of the payload, and only updated_at changed
C7_Witness ==
  \E s \in Slots : /\ req[s].route = "update_company" /\ req[s].pc = "done"
                    /\ req[s].status = 200
                    /\ req[s].cid \in hist.updated
                    /\ req[s].before.f = req[s].result.f
                    /\ req[s].before.updated_at < req[s].result.updated_at
                    /\ \E k \in Keys : Written(req[s].body.obj, k)

DefaultValue(k) == IF k = "is_verified" THEN "#false" ELSE Null

Created(cid) == {c \in hist.created : c.id = cid}

\* C8 as stated: a get of a company that was created and not updated since
\* returns, for every field of the schema, the value of the payload, or the
\* default when the payload does not give the field.
C8_CreateThenGetRaw ==
  \A s \in Slots :
    LET r == req[s] IN
    (r.route = "get_company" /\ r.pc = "done" /\ r.status = 200
       /\ r.cid \notin hist.updated) =>
      \A c \in Created(r.cid) : \A k \in CompanyFields :
        r.result.f[k] = IF c.data[k] # Absent THEN c.data[k] ELSE DefaultValue(k)

\* C8 amended: a get of a company that was created and not updated since
\* returns, for every field of the schema, the value that the schema makes
\* of the payload's value, or the default when the payload does not give
\* the field; no key outside the schema is stored; id is the id that create
\* returned and created_at = updated_at is the time of the creation.
C8_CreateThenGet ==
  \A s \in Slots :
    LET r == req[s] IN
    (r.route = "get_company" /\ r.pc = "done" /\ r.status = 200
       /\ r.cid \notin hist.updated) =>
      \A c \in Created(r.cid) :
        /\ \A k \in CompanyFields :
             r.result.f[k] = IF c.data[k] # Absent
                             THEN ExpectedValue(k, c.data[k])
                             ELSE DefaultValue(k)
        /\ \A k \in Keys \ CompanyFields : r.result.f[k] = Absent
        /\ r.result.id = r.cid
        /\ r.result.created_at = r.result.updated_at
        /\ r.result.created_at <= now

\* C8 witness: a get returned a company created from a payload whose
\* values the schema converts
C8_Witness ==
  \E s \in Slots : /\ req[s].route = "get_company" /\ req[s].pc = "done"
                    /\ req[s].status = 200
                    /\ req[s].cid \notin hist.updated
                    /\ \E c \in Created(req[s].cid) : c.data = BoltPayload

RequiredOf(route) ==
  CASE route \in {"create_company", "legacy_create_company"} ->
         {"company_name", "company_address", "company_email", "company_phone"}
    [] route \in {"add_company_service", "legacy_add_company_service"} ->
         {"service_name"}
    [] route \in {"add_company_project", "legacy_add_company_project"} ->
         {"project_name", "location"}
    [] OTHER -> {"full_name", "position"}

\* C9: a create whose non-empty payload lacks a required field is answered
\* 400 with a message that names that field, and inserts nothing.
C9_MissingFieldNamed ==
  \A s \in Slots :
    LET r == req[s] IN
    (r.route \in CreateRoutes /\ r.pc = "done" /\ HandlerRan(r)
       /\ r.body.obj # EmptyObj) =>
      \A f \in RequiredOf(r.route) :
        r.body.obj[f] = Absent =>
          /\ r.status = 400
          /\ f \in NamedFields(r.msg)
          /\ r.writes = 0

\* the fields of the payload that the handler of the route refuses
Offending(route, data) ==
  IF route \in {"create_company"} \cup ChildRoutes
  THEN LET schema == IF route = "create_company" THEN CompanyCreate
                     ELSE ChildSchema(route)
           e == ValidateModel(schema, data).errors
       IN {e[i].field : i \in 1..Len(e)}
  ELSE {f \in RequiredOf(route) : data[f] = Absent}

\* C10: the 400 answer to a create whose non-empty payload has several
\* offending fields names every one of them.
C10_AllFieldsEnumerated ==
  \A s \in Slots :
    LET r == req[s] IN
    (r.route \in CreateRoutes /\ r.pc = "done" /\ r.status = 400
       /\ r.body.obj # EmptyObj
       /\ Cardinality(Offending(r.route, r.body.obj)) >= 2) =>
      Offending(r.route, r.body.obj) \subseteq NamedFields(r.msg)
(***************************************************************************)
(* Properties of project dates                                             *)
(***************************************************************************)
\* the payload gives an end_date earlier than its start_date
EndBeforeStart(data) ==
  data["start_date"] = "2024-06-30" /\ data["end_date"] = "2024-01-01"

ProjectCreateRoutes == {"add_company_project", "manager_add_project"}

\* C11: the creation, under a stored company, of a project whose end_date
\* is earlier than its start_date, by add_company_project or by
\* OSConstructionManager.add_project, fails with ValidationError and makes
\* no store call.
C11_EndBeforeStartRefused ==
  \A s \in Slots :
    LET r == req[s] IN
    (r.route \in ProjectCreateRoutes /\ r.pc = "done" /\ HandlerRan(r)
       /\ r.existed /\ EndBeforeStart(r.body.obj)) =>
      /\ r.status = 400 \/ r.error = "ValidationError"
      /\ r.reads = 0 /\ r.writes = 0
(***************************************************************************)
(* Properties of pagination                                                *)
(***************************************************************************)
\* C12: for every total >= 0 and per_page in 1..100 the envelope has
\* pages = ceil(total / per_page), that is the least number of pages of
\* per_page records that hold total records, which is 0 exactly when total
\* is 0; page, per_page and total are the ones given.
C12_PagesIsCeiling ==
  \A s \in Slots :
    LET r == req[s] IN
    (r.route = "format_paginated_response" /\ r.pc = "done") =>
      /\ r.env.pages * r.per_page >= r.total
      /\ r.env.pages > 0 => (r.env.pages - 1) * r.per_page < r.total
      /\ r.env.pages >= 0
      /\ (r.env.pages = 0) <=> (r.total = 0)
      /\ r.env.page = r.page /\ r.env.per_page = r.per_page
      /\ r.env.total = r.total

\* C12 witness: total = 25 and per_page = 10 give 3 pages
C12_Witness ==
  \E s \in Slots : /\ req[s].route = "format_paginated_response"
                    /\ req[s].pc = "done"
                    /\ req[s].total = 25 /\ req[s].per_page = 10
                    /\ req[s].env.pages = 3
\* the request is a list request that queries, or has queried, the store
\* with its pagination parameters
ListPcs == {"list_count", "list_query"}
PastParams(r) ==
  /\ r.route \in ListRoutes
  /\ r.pc \in ListPcs \/ (r.pc = "done" /\ r.status = 200)

NonNumeric(raw) == raw \in {"abc", ""}
NonPositive(raw) == raw \in {"0", "-5"}
AboveHundred(raw) == raw \in {"101"}

\* C13: the pagination parameters that a list request uses satisfy
\* page >= 1 and 1 <= per_page <= 100; page is 1 and per_page is 10 when
\* the query string does not give them, per_page is 100 when the query
\* string gives more than 100, and the envelope holds at most per_page
\* records.
C13_PaginationRange ==
  \A s \in Slots :
    LET r == req[s] IN
    PastParams(r) =>
      /\ r.page >= 1 /\ r.per_page >= 1 /\ r.per_page <= 100
      /\ r.args.page = Absent => r.page = 1
      /\ r.args.per_page = Absent => r.per_page = 10
      /\ AboveHundred(r.args.per_page) => r.per_page = 100
      /\ Len(r.env.data) <= r.per_page
      /\ (r.pc = "done" /\ r.status = 200) =>
           r.env.page = r.page /\ r.env.per_page = r.per_page

\* C13 witness: a list was returned for per_page=101, with per_page 100
C13_Witness ==
  \E s \in Slots : /\ req[s].route \in ListRoutes /\ req[s].pc = "done"
                    /\ req[s].status = 200
                    /\ req[s].args.per_page = "101"
                    /\ req[s].args.page = Absent
                    /\ req[s].env.per_page = 100 /\ req[s].env.page = 1

\* C14 as stated: a list request, for a stored company and with no store
\* failure, whose page or per_page is not a number or is not positive is
\* answered 400 and returns no envelope.
C14_InvalidPaginationRefused ==
  \A s \in Slots :
    LET r == req[s] IN
    (/\ r.route \in ListRoutes /\ r.pc = "done"
     /\ r.route = "get_companies" \/ r.existed
     /\ ~r.failed
     /\ \E raw \in {r.args.page, r.args.per_page} :
          NonNumeric(raw) \/ NonPositive(raw))
    => r.status = 400 /\ r.env = NoEnvelope

\* C14 amended: a list request whose page or per_page is not a number is
\* answered 400 with the validation envelope, before any store call and
\* with no data envelope; a page or per_page that is a number but not
\* positive is not refused: the request goes on with the value 1.
C14_NonNumericRefused ==
  \A s \in Slots :
    LET r == req[s] IN
    (r.route \in ListRoutes /\ r.pc \in ListPcs \cup {"done"}) =>
      /\ (NonNumeric(r.args.page) \/ NonNumeric(r.args.per_page)) =>
           /\ r.pc = "done" /\ r.status = 400
           /\ r.error = "Validation Error" /\ r.msg = InvalidPagination
           /\ r.env = NoEnvelope /\ r.reads = 0
      /\ ~(NonNumeric(r.args.page) \/ NonNumeric(r.args.per_page)) =>
           /\ r.msg # InvalidPagination
           /\ (PastParams(r) /\ NonPositive(r.args.page)) => r.page = 1
           /\ (PastParams(r) /\ NonPositive(r.args.per_page)) => r.per_page = 1

\* C14 witness: page=abc was answered 400, and page=0 was answered with
\* the first page
C14_Witness ==
  \E s \in Slots : /\ req[s].route \in ListRoutes /\ req[s].pc = "done"
                    /\ \/ req[s].args.page = "abc" /\ req[s].status = 400
                       \/ /\ req[s].args.page = "0" /\ req[s].status = 200
                          /\ req[s].env.page = 1

\* the records that match the filters of the request
Matching(r) ==
  CASE r.route = "get_companies" ->
         {c \in companies :
            /\ r.args.is_verified = "True" => c.f["is_verified"] = "#true"
            /\ r.args.is_verified = "no" => c.f["is_verified"] = "#false"
            /\ r.args.name = "ac" => c.f["company_name"] = "Acme"}
    [] r.route = "get_company_services" ->
         {c \in children : c.table = "os_construction_services"
                            /\ c.company_id = r.cid}
    [] r.route = "get_company_projects" ->
         {c \in children : /\ c.table = "os_construction_projects"
                            /\ c.company_id = r.cid
                            /\ r.args.status # Absent => c.f["status"] = r.args.status}
    [] OTHER ->
         {c \in children : c.table = "os_construction_employees"
                            /\ c.company_id = r.cid}

\* C15: the total of every list that is returned is the number of records
\* that match the filters of the request.
C15_TotalIsFilteredCount ==
  \A s \in Slots :
    LET r == req[s] IN
    (r.route \in ListRoutes /\ r.pc = "done" /\ r.status = 200 /\ ~r.failed)
    => r.env.total = Cardinality(Matching(r))
(***************************************************************************)
(* Properties of the error responses                                       *)
(***************************************************************************)
ImprovedRoutes == ProtectedRoutes \cup ListRoutes
                    \cup {"login", "get_company", "health_check"}

\* the status that goes with the error string of an envelope
KindStatus(error) ==
  CASE error = "Validation Error" -> 400
    [] error \in {"Authentication Error", "Authentication required",
                  "Authentication failed"} -> 401
    [] error \in {"Authorization Error", "Authorization failed"} -> 403
    [] error = "Not Found" -> 404
    [] error = "Database Connection Error" -> 503
    [] error \in {"Application Error", "Internal Server Error"} -> 500
    [] OTHER -> 0

\* C16: every response of app_improved.py with a status of 400 or more has
\* an error and a message, and its status is the one of its error kind:
\* validation 400, authentication 401, authorization 403, not found 404,
\* store unavailable 503, anything else 500.
C16_ErrorEnvelope ==
  \A s \in Slots :
    LET r == req[s] IN
    (r.route \in ImprovedRoutes /\ r.pc = "done" /\ r.status >= 400) =>
      /\ r.error # "" /\ r.msg.text # Absent
      /\ r.status = KindStatus(r.error)

\* C17: no response of app_improved.py carries the text of an exception
\* that is not one of the taxonomy errors.
C17_NoInternalText ==
  \A s \in Slots :
    LET r == req[s] IN
    (r.route \in ImprovedRoutes /\ r.pc = "done") => r.msg.cause = ""

\* C18: a list request during which a store call raised is answered 503.
C18_StoreFailurePropagates ==
  \A s \in Slots :
    LET r == req[s] IN
    (r.route \in ListRoutes /\ r.pc = "done" /\ r.failed) => r.status = 503
(***************************************************************************)
(* Properties of the timestamps                                            *)
(***************************************************************************)
Records == companies \cup children
RecordIds(rows) == {r.id : r \in rows}
RecordOf(rows, id) == CHOOSE r \in rows : r.id = id

\* the request of the slot is a mutation that reads the clock at time t
\* and completes in this step
Mutates(s, t) ==
  /\ req[s].pc \in {"update", "transfer_update", "legacy_update"}
  /\ req'[s].pc = "done" /\ req'[s].writes = req[s].writes + 1
  /\ req'[s].stamp = t

\* C19: with one request at a time, a record is created with created_at =
\* updated_at = the time of its creation; created_at never changes; a
\* record changes only in the step that completes an update or a transfer,
\* which sets updated_at to the time at which that request read the clock;
\* so created_at <= updated_at <= now holds in every state.
C19_Timestamps ==
  /\ [](\A r \in companies \cup children :
          r.created_at <= r.updated_at /\ r.updated_at <= now)
  /\ [][\A id \in RecordIds(companies' \cup children') :
          LET new == RecordOf(companies' \cup children', id) IN
          IF id \notin RecordIds(Records)
          THEN new.created_at = now /\ new.updated_at = now
          ELSE LET old == RecordOf(Records, id) IN
               /\ new.created_at = old.created_at
               /\ new # old =>
                    \E s \in Slots : /\ Mutates(s, new.updated_at)
                                     /\ req[s].stamp <= new.updated_at
                                     /\ new.updated_at >= old.updated_at]_vars
(***************************************************************************)
(* Properties of concurrent creation and deletion                          *)
(***************************************************************************)
CreatingPcs == {"insert", "legacy_insert", "manager_insert"}

\* C20: in every state, whatever the interleaving of the store calls of a
\* child creation with those of a company deletion, every stored service,
\* project and employee references a stored company; and a creation that
\* answers with the new row has put it under a company that is stored at
\* that moment.
C20_ChildrenHaveParent ==
  /\ \A c \in children : SelectById(companies, c.company_id) # {}
  /\ \A s \in Slots :
       (req[s].pc = "done" /\ req[s].result # NoRow
        /\ req[s].result.table # "os_construction"
        /\ req[s].result \in children) =>
         SelectById(companies, req[s].result.company_id) # {}

\* C20 witness: a creation passed its existence check, the company was
\* deleted before the insert, and the insert was refused
C20_Witness ==
  /\ req[1].pc = "done" /\ req[1].existed /\ req[1].reads = 1
  /\ req[1].writes = 1 /\ req[1].result = NoRow
  /\ req[1].cid \in hist.deleted
  /\ children = {}

\* C20 witness of the cascade: a company that had a child has been deleted
C20_CascadeWitness ==
  /\ req[1].pc = "done" /\ req[1].result # NoRow
  /\ req[1].result.company_id \in hist.deleted
  /\ children = {} /\ companies = {}
(***************************************************************************)
(* Properties of the request body                                          *)
(***************************************************************************)
\* absent, empty, not JSON, or JSON that is not an object
MalformedBody(data) ==
  data.kind # "object" \/ KeysOf(data.obj) = {}

\* C21: a request to a mutating endpoint whose body is absent, empty, not
\* valid JSON or not a JSON object, once past the token gate, is answered
\* 400 Validation Error and has made no store call.
C21_MalformedBodyRefused ==
  \A s \in Slots :
    LET r == req[s] IN
    (r.route \in MutatingRoutes /\ MalformedBody(r.body)
     /\ r.pc = "done" /\ r.user_id # NoUser) =>
      /\ r.status = 400 /\ r.error = "Validation Error"
      /\ r.reads = 0 /\ r.writes = 0
(***************************************************************************)
(* Properties of transfer_employee                                         *)
(***************************************************************************)
\* C22: the step in which transfer_employee writes company_id and returns
\* True starts in a state where the employee belongs to company `from` and
\* company `to` is stored; and a call that ends with ResourceNotFoundError
\* leaves companies and children as they were.
C22_TransferIsTransaction ==
  [][\A s \in Slots :
       /\ (req[s].pc = "transfer_update" /\ req'[s].pc = "done"
           /\ req'[s].result # NoRow) =>
            /\ EmployeeIn(children, req[s].eid, req[s].cid) # {}
            /\ SelectById(companies, req[s].to) # {}
       /\ (req[s].route = "transfer_employee" /\ req[s].pc # "done"
           /\ req'[s].pc = "done"
           /\ req'[s].error = "ResourceNotFoundError") =>
            UNCHANGED <<companies, children>>]_vars
(***************************************************************************)
(* Properties of the manager's exceptions                                  *)
(***************************************************************************)
\* C23: a manager call that has returned raised DatabaseError only because
\* a store call failed; a payload that the schema refuses, given to
\* add_company or to add_project of a stored company while the store
\* answers, ends with ValidationError.
C23_ManagerErrorKinds ==
  \A s \in Slots :
    LET r == req[s] IN
    (r.route \in ManagerRoutes /\ r.pc = "done") =>
      /\ r.error = "DatabaseError" => r.msg.cause = "store error"
      /\ (/\ ValidateModel(ManagerSchema(r.route), r.body.obj).errors # <<>>
          /\ r.route = "manager_add_project" => r.existed
          /\ r.msg.cause # "store error") => r.error = "ValidationError"
(***************************************************************************)
(* Properties of the configuration                                         *)
(***************************************************************************)
InProduction == config.environ.FLASK_ENV = "production"
\* C24: once the application has been started in production with
\* SECRET_KEY or JWT_SECRET_KEY unset, loading the configuration has
\* raised; and in production no token is issued while app.config holds
\* the built-in JWT_SECRET_KEY.
C24_ProductionNeedsKeys ==
  (InProduction /\ config.started) =>
    /\ ProductionConfig_init_raises(config.environ) => config.app.raised
    /\ config.app.JWT_SECRET_KEY = DefaultJwtSecretKey => issued = {}
(***************************************************************************)
(* Properties of concurrent deletion                                       *)
(***************************************************************************)
\* the request has been admitted by both gates and answered by the handler
AnsweredDelete(r) ==
  /\ r.route = "delete_company" /\ r.pc = "done"
  /\ r.status \notin {401, 403}

\* C25: of two answered delete requests for the same company id that both
\* arrived while the company was stored, one has status 200 and the other
\* 404.
C25_OneDeleteWins ==
  \A s \in Slots, t \in Slots :
    (/\ s # t
     /\ AnsweredDelete(req[s]) /\ AnsweredDelete(req[t])
     /\ req[s].cid = req[t].cid
     /\ req[s].existed /\ req[t].existed) =>
      {req[s].status, req[t].status} = {200, 404}
(***************************************************************************)
(* Properties of the allow-list                                            *)
(***************************************************************************)
\* the non-empty ids that ADMIN_USER_IDS names
ConfiguredAdmins ==
  {adminEnv[i] : i \in 1..Len(adminEnv)} \ {",", ""}

\* C26: a request that has passed the role check of the admin-only route
\* carries a subject id that is one of the non-empty entries of
\* ADMIN_USER_IDS; in particular none passes when the list is unset or
\* empty.
C26_AllowListOnly ==
  \A s \in Slots :
    LET r == req[s] IN
    (r.route \in AdminRoutes /\ HandlerRan(r)) => r.user_id \in ConfiguredAdmins
(***************************************************************************)
(* Properties of token_required                                            *)
(***************************************************************************)
\* C27: once token_required has decided on a request, either the handler
\* has been called with request.user_id and request.username equal to the
\* sub and username of the token, or the request has been answered 401
\* without a store call; the decorator has raised nothing.
C27_TokenGateTotal ==
  \A s \in Slots :
    LET r == req[s] IN
    GateRan(r) =>
      /\ ~r.raised
      /\ \/ /\ HandlerRan(r)
            /\ r.user_id = r.hdr.token.sub /\ r.username = r.hdr.token.username
         \/ /\ r.pc = "done" /\ r.status = 401
            /\ r.reads = 0 /\ r.writes = 0
(***************************************************************************)
(* Properties of the pages                                                 *)
(***************************************************************************)
\* the ids of the rows that the query of the request selects, in the order
\* of the store
Filtered(r) == IdsInOrder({x.id : x \in ListQuery(r.route, r.cid, r.args)})

\* C28: while the store is not written, the data of a returned page p is
\* the items at the zero-based positions (p-1)*per_page .. p*per_page-1 of
\* the filtered result, as far as the result reaches: item i of the page is
\* item (p-1)*per_page + i of the result, the page holds per_page items or
\* what is left of the result after the earlier pages, and nothing when
\* the earlier pages exhaust it.
C28_PageIsSlice ==
  \A s \in Slots :
    LET r == req[s]
        all == Filtered(r)
        n == Len(all)
        data == r.env.data
        before == (r.env.page - 1) * r.env.per_page
        left == IF n > before THEN n - before ELSE 0
    IN (r.route \in ListRoutes /\ r.pc = "done" /\ r.status = 200) =>
         /\ Len(data) = IF left < r.env.per_page THEN left ELSE r.env.per_page
         /\ \A i \in 1..Len(data) : data[i] = all[before + i]
         /\ \A i \in 1..Len(data), j \in 1..Len(data) :
              data[i] = data[j] => i = j

\* C28 witness: a second page of one item that holds the second item of a
\* result of two
C28_Witness ==
  /\ req[1].pc = "done" /\ req[1].status = 200
  /\ req[1].env.page = 2 /\ req[1].env.per_page = 1
  /\ Len(Filtered(req[1])) = 2
  /\ req[1].env.data = <<Filtered(req[1])[2]>>
(***************************************************************************)
(* Properties of the list envelope                                         *)
(***************************************************************************)
\* C29: in every list response with status 200 the data holds at most
\* per_page items and at most pagination.total items, and it holds an item
\* only if page <= pagination.pages; also when the count call failed.
C29_EnvelopeConsistent ==
  \A s \in Slots :
    LET r == req[s] IN
    (r.route \in ListRoutes /\ r.pc = "done" /\ r.status = 200) =>
      /\ Len(r.env.data) <= r.env.per_page
      /\ Len(r.env.data) <= r.env.total
      /\ Len(r.env.data) > 0 => r.env.page <= r.env.pages
(***************************************************************************)
(* Properties of the server-assigned fields                                *)
(***************************************************************************)
\* C30: through the validated handlers no value that a payload gives for
\* id, company_id, created_at or updated_at is written to a record; a
\* created service, project or employee has the company id of the request
\* path; a record is created with the id of the store and the time of the
\* server, and an update changes neither the id nor created_at of a
\* company.
C30_ServerFieldsKept ==
  /\ [](/\ \A r \in companies \cup children :
             \A k \in ServerKeys : r.f[k] = Absent
        /\ \A s \in Slots :
             (req[s].route \in ChildRoutes /\ req[s].pc = "done"
              /\ req[s].result # NoRow) =>
               req[s].result.company_id = req[s].cid)
  /\ [][/\ \A id \in RecordIds(companies) :
             /\ id \in RecordIds(companies')
             /\ RecordOf(companies', id).created_at
                  = RecordOf(companies, id).created_at
        /\ \A id \in RecordIds(companies' \cup children') \ RecordIds(Records) :
             /\ id = nextId
             /\ RecordOf(companies' \cup children', id).created_at = now]_vars

\* C30 witness: an update and the creation of a child whose payloads named
\* the server-assigned fields have been carried out
C30_Witness ==
  /\ req[1].pc = "done" /\ req[1].route = "update_company"
  /\ req[1].status = 200
  /\ req[1].body.obj["created_at"] # Absent /\ req[1].body.obj["id"] # Absent
  /\ req[1].result.f["company_name"] = "Bolt"
  /\ \E c \in children : c.company_id = 1 /\ c.created_at > 0
  /\ now > 0
====
